---------------------------- MODULE Spec2Model ----------------------------
(***************************************************************************)
(* A model of rust-bitcoincore-zmq: the framing loop (recv_internal), the  *)
(* message codec it hands frames to, the blocking delivery loop            *)
(* (subscribe_internal), the handshake-wait state machine with its         *)
(* thread-based timer, and the post-handshake checked stream.              *)
(*                                                                         *)
(* Bytes are naturals 0..255.  A frame is a record [len, head]: `len` is   *)
(* the frame's length and `head` its leading bytes; every byte after       *)
(* `head` is zero.  This keeps a frame of DATA_MAX_LEN + 1 bytes           *)
(* representable without enumerating four million bytes.                   *)
(***************************************************************************)
EXTENDS Integers, Sequences, FiniteSets, TLC

VARIABLES
    \* ---- the subscriber (data) socket and the framing loop
    published,    \* multipart messages delivered to the SUB socket, in order
    rx_msg,       \* number of multipart messages completely read
    rx_frame,     \* frames already read of the message being read (0: none)
    data_cache,   \* the reused DATA_MAX_LEN scratch buffer (see BufWrite)
    \* ---- the blocking delivery loop (subscribe_internal)
    bl_pc,        \* "recv" | "callback" | "returned"
    bl_call,      \* the recv_internal call awaiting its callback, or NoCall
    bl_ret,       \* the value subscribe_internal returned, or NoValue
    recvLog,      \* history: results returned by recv_internal, in order
    cbLog,        \* history: <<result, decision>> of every callback call
    \* ---- the monitor channel (inproc PAIR socket)
    monItems,     \* what the monitor stream yields, in order (see MonitorCatalog)
    monRead,      \* number of items already taken from the monitor stream
    \* ---- subscribe_async_wait_handshake
    hs_N,         \* endpoints.len()
    hs_pc,        \* "init" | "created" | "loop" | "parked" | "resolved" | "error"
    connecting,   \* the counter `connecting`
    hs_res,       \* what the future completed with, or NoResult
    \* ---- subscribe_async_wait_handshake_timeout, its task and its timer
    to_mode,      \* "timeout": called through the combinator; "plain": directly;
                  \* "direct": no call, the Sleep future is polled by itself
    to_pc,        \* "pollA" | "pollB" | "parked" | "returned"
    to_result,    \* what the call returned, or NoResult
    woken,        \* the task's waker was woken since its last poll began
    sleepState,   \* SleepReadyState: "Pending" | "PendingPolled" | "Done"
    timer_pc,     \* timer thread: "none" | "sleeping" | "slept" | "stored" | "exited"
    timer_old,    \* the state mem::replace returned to the timer thread
    wakes,        \* history: number of waker.wake() calls of the timer thread
    sleepWaker,   \* the Waker held by SleepReadyState::PendingPolled, or NoWaker
    timer_waker,  \* the Waker in the state mem::replace returned, or NoWaker
    lastSleepPoll, \* history: waker and result of the latest Sleep::poll, or NoPoll
    \* ---- the async data stream and the checked stream wrapping it
    dataItems,    \* what the data stream (async_zmq Subscribe) yielded or will yield
    dataRead,     \* how many of them were polled out of it
    inner,        \* the checked stream's `inner`: "Some" | "None"
    out,          \* history: the items the checked stream yielded, in order
    lastPoll,     \* the result of the latest poll_next of the checked stream
    \* ---- the channel of subscribe_receiver
    chan,         \* the items sent and not yet received, oldest first
    rxAlive,      \* the Receiver has not been dropped
    rxLog,        \* history: the items the consumer read from the Receiver
    dropAt,       \* history: Len(recvLog) when the Receiver was dropped, or -1
    mb_pc,        \* subscribe_multi_blocking: "none" | "spawn" | "loop" | "returned" | "failed" | "unreachable"
    mb_N,         \* endpoints.len()
    mb_readers,   \* the reader threads spawned so far: [running, pushes]
    mb_tx,        \* the function still holds its own Sender `tx`
    mb_ret,       \* the value subscribe_multi_blocking returned, or NoValue
    \* ---- subscription creation (new_socket_internal and its callers)
    su_api,       \* "receiver" | "async" | "monitor" | "none"
    su_N,         \* endpoints.len()
    su_pc,        \* "socket" | "filter" | "connect" | "monitor" | "finish" | "done" | "failed"
    su_k,         \* number of connect calls that succeeded
    su_m,         \* number of monitor setup calls that succeeded
    su_result,    \* what the subscribe function returned, or NoResult
    su_fail,      \* history: the first call that failed, or NoFailure
    \* ---- the message codec applied to one input
    cx_src,       \* the input: a multipart, a Message, bytes or a SequenceMessage
    cx_trace      \* the values obtained from it by decoding and encoding, in order

sockVars == <<published, rx_msg, rx_frame, data_cache>>
blockVars == <<bl_pc, bl_call, bl_ret, recvLog, cbLog>>
monVars == <<monItems, monRead>>
hsVars == <<hs_N, hs_pc, connecting, hs_res>>
wakerVars == <<sleepWaker, timer_waker, lastSleepPoll>>
toVars ==
    <<to_mode, to_pc, to_result, woken, sleepState, timer_pc, timer_old, wakes, wakerVars>>
streamVars == <<dataItems, dataRead, inner, out, lastPoll>>
asyncVars == <<monVars, hsVars, toVars, streamVars>>
fanVars == <<mb_pc, mb_N, mb_readers, mb_tx, mb_ret>>
chanVars == <<chan, rxAlive, rxLog, dropAt, fanVars>>
setupVars == <<su_api, su_N, su_pc, su_k, su_m, su_result, su_fail>>
subVars == <<chanVars, setupVars>>
codecVars == <<cx_src, cx_trace>>
vars == <<sockVars, blockVars, asyncVars, subVars, codecVars>>

-----------------------------------------------------------------------------
(* Program constants                                                       *)

TOPIC_MAX_LEN == 9
DATA_MAX_LEN == 4000000
SEQUENCE_LEN == 4

-----------------------------------------------------------------------------
(* Bounds of the model                                                     *)

MaxPublished == 3
MaxMonitor == 3
MaxEndpoints == 2
MaxStreamEvents == 2
MaxStreamData == 2
MaxCodecSteps == 3
MaxExtraFrames == 2
MaxWakers == 6
MaxPushes == 3

-----------------------------------------------------------------------------
(* Bytes and frames                                                        *)

Min(a, b) == IF a <= b THEN a ELSE b

RECURSIVE StripZeros(_)
StripZeros(s) ==
    IF s = <<>> THEN s
    ELSE IF s[Len(s)] = 0 THEN StripZeros(SubSeq(s, 1, Len(s) - 1))
    ELSE s

\* The frame of length n whose leading bytes are h (the rest zero).
Frame(n, h) == [len |-> n, head |-> StripZeros(SubSeq(h, 1, Min(n, Len(h))))]

\* A frame given by all of its bytes.
Bytes(s) == Frame(Len(s), s)

\* Byte i (1-based) of frame f.
FrameByte(f, i) == IF i <= Len(f.head) THEN f.head[i] ELSE 0

\* All bytes of a (short) frame.
FrameBytes(f) == [i \in 1..f.len |-> FrameByte(f, i)]

Reverse(s) == [i \in 1..Len(s) |-> s[Len(s) + 1 - i]]

\* u32::from_le_bytes / u64::from_le_bytes
RECURSIVE FromLeBytes(_)
FromLeBytes(s) ==
    IF s = <<>> THEN 0 ELSE s[1] + 256 * FromLeBytes(Tail(s))

-----------------------------------------------------------------------------
(* Results                                                                 *)

Ok(m) == [ok |-> TRUE, msg |-> m]
Err(e) == [ok |-> FALSE, err |-> e]

\* Error::Zmq(e): From<zmq::Error>, From<async_zmq::RecvError> and the like
ZmqError == [kind |-> "Zmq"]

InvalidMutlipartLength(n) == [kind |-> "InvalidMutlipartLength", count |-> n]
InvalidTopic(n, buf) == [kind |-> "InvalidTopic", tlen |-> n, tbuf |-> buf]
InvalidDataLength(n) == [kind |-> "InvalidDataLength", dlen |-> n]
InvalidSequenceLength(n) == [kind |-> "InvalidSequenceLength", slen |-> n]
InvalidSequenceMessageLength(n) ==
    [kind |-> "InvalidSequenceMessageLength", smlen |-> n]
InvalidSequenceMessageLabel(b) ==
    [kind |-> "InvalidSequenceMessageLabel", label |-> b]
Invalid256BitHashLength(n) == [kind |-> "Invalid256BitHashLength", hlen |-> n]
BitcoinDeserialization == [kind |-> "BitcoinDeserialization"]


-----------------------------------------------------------------------------
(* The message codec: Message::from_parts and SequenceMessage              *)

TopicHashBlock == <<104, 97, 115, 104, 98, 108, 111, 99, 107>>
TopicHashTx == <<104, 97, 115, 104, 116, 120>>
TopicRawBlock == <<114, 97, 119, 98, 108, 111, 99, 107>>
TopicRawTx == <<114, 97, 119, 116, 120>>
TopicSequence == <<115, 101, 113, 117, 101, 110, 99, 101>>

LabelC == 67
LabelD == 68
LabelA == 65
LabelR == 82

\* bitcoin::consensus::deserialize is an external codec.  Its decision is
\* represented by one bit of the payload (first byte 1: well-formed) and a
\* decoded block or transaction by the bytes it was decoded from.
ConsensusDeserialize(data) ==
    IF data.len > 0 /\ FrameByte(data, 1) = 1
    THEN [ok |-> TRUE, val |-> data]
    ELSE [ok |-> FALSE, err |-> BitcoinDeserialization]

\* `let label = bytes[32]`
LabelByte_First(bytes) == FrameByte(bytes, 1)
LabelByte(bytes) == FrameByte(bytes, 33)

\* SequenceMessage::from_byte_slice
SequenceMessage_from_byte_slice(bytes) ==
    IF bytes.len < 33 THEN Err(InvalidSequenceMessageLength(bytes.len))
    ELSE LET hash == Reverse([i \in 1..32 |-> FrameByte(bytes, i)])
             label == LabelByte(bytes)
         IN  IF label \in {LabelC, LabelD}
             THEN IF bytes.len # 33
                  THEN Err(InvalidSequenceMessageLength(bytes.len))
                  ELSE Ok([variant |-> IF label = LabelC THEN "BlockConnect"
                                       ELSE "BlockDisconnect",
                           blockhash |-> hash])
             ELSE IF label \in {LabelA, LabelR}
             THEN IF bytes.len # 41
                  THEN Err(InvalidSequenceMessageLength(bytes.len))
                  ELSE Ok([variant |-> IF label = LabelA THEN "MempoolAcceptance"
                                       ELSE "MempoolRemoval",
                           txid |-> hash,
                           mempool_sequence |->
                               FromLeBytes([i \in 1..8 |-> FrameByte(bytes, 33 + i)])])
             ELSE Err(InvalidSequenceMessageLabel(label))

\* `data.try_into()` to [u8; 32]: succeeds for slices of exactly 32 bytes
IsHashLength_AtLeast32(n) == n >= 32
IsHashLength(n) == n = 32

\* Message::from_parts(topic, data, sequence): topic is a byte sequence, data
\* a frame, sequence the four bytes of the sequence buffer.
Message_from_parts(topic, data, sequence) ==
    LET seq == FromLeBytes(sequence)
    IN  IF topic \in {TopicHashBlock, TopicHashTx}
        THEN IF ~IsHashLength(data.len)
             THEN Err(Invalid256BitHashLength(data.len))
             ELSE Ok([kind |-> IF topic = TopicHashBlock THEN "HashBlock"
                               ELSE "HashTx",
                      hash |-> Reverse(FrameBytes(data)),
                      sequence |-> seq])
        ELSE IF topic \in {TopicRawBlock, TopicRawTx}
        THEN LET d == ConsensusDeserialize(data)
             IN  IF d.ok
                 THEN Ok([kind |-> IF topic = TopicRawBlock THEN "Block" ELSE "Tx",
                          raw |-> d.val,
                          sequence |-> seq])
                 ELSE Err(d.err)
        ELSE IF topic = TopicSequence
        THEN LET sm == SequenceMessage_from_byte_slice(data)
             IN  IF sm.ok
                 THEN Ok([kind |-> "Sequence", sm |-> sm.msg, sequence |-> seq])
                 ELSE sm
        ELSE Err(InvalidTopic(Len(topic),
                 [i \in 1..TOPIC_MAX_LEN |->
                     IF i <= Min(TOPIC_MAX_LEN, Len(topic)) THEN topic[i] ELSE 0]))

-----------------------------------------------------------------------------
(* The codec of message.rs and sequence_message.rs: encoding, and decoding *)
(* of a whole multipart                                                    *)

None == [some |-> FALSE]
Some(v) == [some |-> TRUE, val |-> v]

\* u32::to_le_bytes (k = 4) / u64::to_le_bytes (k = 8)
RECURSIVE ToLeBytes(_, _)
ToLeBytes(n, k) ==
    IF k = 0 THEN <<>> ELSE <<n % 256>> \o ToLeBytes(n \div 256, k - 1)

IsBlockVariant(sm) == sm.variant \in {"BlockConnect", "BlockDisconnect"}

\* SequenceMessage::raw_length
SequenceMessage_raw_length_Always33(sm) == 33
SequenceMessage_raw_length(sm) == IF IsBlockVariant(sm) THEN 33 ELSE 41

\* SequenceMessage::label
SequenceMessage_label(sm) ==
    CASE sm.variant = "BlockConnect" -> LabelC
      [] sm.variant = "BlockDisconnect" -> LabelD
      [] sm.variant = "MempoolAcceptance" -> LabelA
      [] sm.variant = "MempoolRemoval" -> LabelR

\* SequenceMessage::inner_hash_as_bytes
SequenceMessage_inner_hash_as_bytes(sm) ==
    Reverse(IF IsBlockVariant(sm) THEN sm.blockhash ELSE sm.txid)

\* SequenceMessage::mempool_sequence
SequenceMessage_mempool_sequence(sm) ==
    IF IsBlockVariant(sm) THEN None ELSE Some(sm.mempool_sequence)

\* SequenceMessage::as_bytes (serialize_to_vec in message.rs)
SequenceMessage_as_bytes(sm) ==
    LET ms == SequenceMessage_mempool_sequence(sm)
    IN  SequenceMessage_inner_hash_as_bytes(sm)
          \o <<SequenceMessage_label(sm)>>
          \o (IF ms.some THEN ToLeBytes(ms.val, 8) ELSE <<>>)

\* Message::topic (message.rs)
Message_topic(m) ==
    CASE m.kind = "HashBlock" -> TopicHashBlock
      [] m.kind = "HashTx" -> TopicHashTx
      [] m.kind = "Block" -> TopicRawBlock
      [] m.kind = "Tx" -> TopicRawTx
      [] m.kind = "Sequence" -> TopicSequence

\* Message::serialize_data_to_vec (message.rs).  bitcoin::consensus::serialize
\* of a decoded block or transaction gives the bytes it stands for.
HashToWire_AsStored(hash) == hash
HashToWire(hash) == Reverse(hash)

Message_serialize_data_to_vec(m) ==
    IF m.kind \in {"HashBlock", "HashTx"} THEN Bytes(HashToWire(m.hash))
    ELSE IF m.kind \in {"Block", "Tx"} THEN m.raw
    ELSE Bytes(SequenceMessage_as_bytes(m.sm))

\* Message::serialize_to_vecs (message.rs)
Message_serialize_to_vecs(m) ==
    << Bytes(Message_topic(m)),
       Message_serialize_data_to_vec(m),
       Bytes(ToLeBytes(m.sequence, 4)) >>

\* `sequence.try_into()` to [u8; 4]: succeeds for slices of exactly 4 bytes
IsSequenceLength_AtMost4(n) == n <= SEQUENCE_LEN
IsSequenceLength(n) == n = SEQUENCE_LEN

\* Message::from_fixed_size_multipart (message.rs)
Message_from_fixed_size_multipart(mp) ==
    IF ~IsSequenceLength(mp[3].len)
    THEN Err(InvalidSequenceLength(mp[3].len))
    ELSE Message_from_parts(FrameBytes(mp[1]), mp[2], FrameBytes(mp[3]))

\* Message::from_multipart (message.rs)
FrameCountOk_AtLeast3(n) == n >= 3
FrameCountOk(n) == n = 3

Message_from_multipart(mp) ==
    IF ~FrameCountOk(Len(mp))
    THEN Err(InvalidMutlipartLength(Len(mp)))
    ELSE Message_from_fixed_size_multipart(mp)

-----------------------------------------------------------------------------
(* The codec of message/mod.rs, message/raw.rs and message/topic.rs: the   *)
(* same wire format behind Topic, RawMessage and MessageContent            *)

\* Topic::try_from_bytes_const
Topic_try_from_bytes_const(bytes) ==
    IF bytes = TopicHashBlock THEN Some("HashBlock")
    ELSE IF bytes = TopicHashTx THEN Some("HashTx")
    ELSE IF bytes = TopicRawBlock THEN Some("RawBlock")
    ELSE IF bytes = TopicRawTx THEN Some("RawTx")
    ELSE IF bytes = TopicSequence THEN Some("Sequence")
    ELSE None

\* UnknownTopicError::from_bytes: the error owns all of the bytes
UnknownTopic(bytes) == [kind |-> "UnknownTopic", topic |-> bytes]

\* Topic::try_from_bytes
Topic_try_from_bytes(bytes) ==
    LET t == Topic_try_from_bytes_const(bytes)
    IN  IF t.some THEN Ok(t.val) ELSE Err(UnknownTopic(bytes))

\* Topic::as_str / Topic::as_bytes
Topic_as_bytes(topic) ==
    CASE topic = "HashBlock" -> TopicHashBlock
      [] topic = "HashTx" -> TopicHashTx
      [] topic = "RawBlock" -> TopicRawBlock
      [] topic = "RawTx" -> TopicRawTx
      [] topic = "Sequence" -> TopicSequence

\* RawMessage::from_parts
RawMessage_from_parts(topic, data, sequence) ==
    [topic |-> topic, data |-> data, sequence |-> sequence]

\* RawMessage::try_from_multipart_parts
RawMessage_try_from_multipart_parts(topic, data, sequence) ==
    LET t == Topic_try_from_bytes(FrameBytes(topic))
    IN  IF ~t.ok THEN t
        ELSE IF ~IsSequenceLength(sequence.len)
        THEN Err(InvalidSequenceLength(sequence.len))
        ELSE Ok(RawMessage_from_parts(t.msg, data, FromLeBytes(FrameBytes(sequence))))

\* RawMessage::try_from_multipart: three `next()` and the count of the rest
RawMessage_try_from_multipart(mp) ==
    IF Len(mp) = 0 THEN Err(InvalidMutlipartLength(0))
    ELSE IF Len(mp) = 1 THEN Err(InvalidMutlipartLength(1))
    ELSE IF Len(mp) = 2 THEN Err(InvalidMutlipartLength(2))
    ELSE LET parts == (Len(mp) - 3) + 3
         IN  IF parts # 3 THEN Err(InvalidMutlipartLength(parts))
             ELSE RawMessage_try_from_multipart_parts(mp[1], mp[2], mp[3])

\* RawMessage::to_vecs
RawMessage_to_vecs(raw) ==
    << Bytes(Topic_as_bytes(raw.topic)), raw.data, Bytes(ToLeBytes(raw.sequence, 4)) >>

\* MessageContent::topic
MessageContent_topic(c) ==
    CASE c.kind = "BlockHash" -> "HashBlock"
      [] c.kind = "Txid" -> "HashTx"
      [] c.kind = "Block" -> "RawBlock"
      [] c.kind = "Tx" -> "RawTx"
      [] c.kind = "Sequence" -> "Sequence"

\* MessageContent::serialize_data_to_vec
MessageContent_serialize_data_to_vec(c) ==
    IF c.kind \in {"BlockHash", "Txid"} THEN Bytes(HashToWire(c.hash))
    ELSE IF c.kind \in {"Block", "Tx"} THEN c.raw
    ELSE Bytes(SequenceMessage_as_bytes(c.sm))

\* MessageContent::try_from_raw_message
MessageContent_try_from_raw_message(raw) ==
    IF raw.topic \in {"HashBlock", "HashTx"}
    THEN IF ~IsHashLength(raw.data.len)
         THEN Err(Invalid256BitHashLength(raw.data.len))
         ELSE Ok([kind |-> IF raw.topic = "HashBlock" THEN "BlockHash" ELSE "Txid",
                  hash |-> Reverse(FrameBytes(raw.data))])
    ELSE IF raw.topic \in {"RawBlock", "RawTx"}
    THEN LET d == ConsensusDeserialize(raw.data)
         IN  IF d.ok
             THEN Ok([kind |-> IF raw.topic = "RawBlock" THEN "Block" ELSE "Tx",
                      raw |-> d.val])
             ELSE Err(d.err)
    ELSE LET sm == SequenceMessage_from_byte_slice(raw.data)
         IN  IF sm.ok THEN Ok([kind |-> "Sequence", sm |-> sm.msg]) ELSE sm

\* Message::try_from_raw_message
Message_try_from_raw_message(raw) ==
    LET c == MessageContent_try_from_raw_message(raw)
    IN  IF c.ok THEN Ok([content |-> c.msg, sequence |-> raw.sequence]) ELSE c

\* Message::serialize_to_raw_message
Message_serialize_to_raw_message(m) ==
    RawMessage_from_parts(MessageContent_topic(m.content),
                          MessageContent_serialize_data_to_vec(m.content),
                          m.sequence)

\* Message::serialize_to_vecs (message/mod.rs)
MessageMod_serialize_to_vecs(m) == RawMessage_to_vecs(Message_serialize_to_raw_message(m))

\* Message::from_multipart (message/mod.rs)
MessageMod_from_multipart(mp) ==
    LET raw == RawMessage_try_from_multipart(mp)
    IN  IF raw.ok THEN Message_try_from_raw_message(raw.msg) ELSE raw

-----------------------------------------------------------------------------
(* The scratch buffer data: [u8; DATA_MAX_LEN].  It is a stack of layers,  *)
(* newest first: a layer is what one receive_into copied (its length and   *)
(* leading bytes); byte i of the buffer is byte i of the newest layer that *)
(* reaches i, and zero (the initial contents) when none does.              *)

EmptyBuf == <<>>

RECURSIVE BufByte(_, _)
BufByte(buf, i) ==
    IF buf = <<>> THEN 0
    ELSE IF i <= buf[1].len THEN FrameByte(buf[1], i)
    ELSE BufByte(Tail(buf), i)

RECURSIVE BufHeadLen(_)
BufHeadLen(buf) ==
    IF buf = <<>> THEN 0
    ELSE LET r == BufHeadLen(Tail(buf))
         IN  IF Len(buf[1].head) > r THEN Len(buf[1].head) ELSE r

\* ReceiveFrom::receive_into(buf) on the scratch buffer: copies
\* min(len, buf.len()) bytes of the frame to the start of the buffer.
BufWrite(buf, f) ==
    LET copy_len == Min(f.len, DATA_MAX_LEN)
        Longer(l) == l.len > copy_len
    IN  IF copy_len = 0 THEN buf
        ELSE <<Frame(copy_len, f.head)>> \o SelectSeq(buf, Longer)

\* &data[0..n]
BufSlice_WholeBuffer(buf, n) ==
    Frame(IF buf = <<>> THEN n ELSE buf[Len(buf)].len,
          [i \in 1..BufHeadLen(buf) |-> BufByte(buf, i)])
BufSlice(buf, n) ==
    Frame(n, [i \in 1..Min(n, BufHeadLen(buf)) |-> BufByte(buf, i)])

\* receive_into on a small zeroed array of `cap` bytes: the array afterwards.
SmallBuf(f, cap) ==
    [i \in 1..cap |-> IF i <= Min(f.len, cap) THEN FrameByte(f, i) ELSE 0]

-----------------------------------------------------------------------------
(* recv_internal                                                           *)

\* What the successive zmq calls on a socket obtain is a sequence of frames
\* in which ZmqFails(call) marks a call that fails (EINTR, ETERM, ...):
\* recv_into at that place, or get_rcvmore before it, returns the zmq error
\* and no frame is received.  More frames are flagged before a failing
\* recv_into.
ZmqFails(call) == [zmq_fails |-> call, errno |-> "EINTR"]

IsZmqFailure(f) == "zmq_fails" \in DOMAIN f

IsRcvmoreFailure(f) == IsZmqFailure(f) /\ f.zmq_fails = "get_rcvmore"

\* Every receive delivered a frame.
NoZmqFailure(frames) == \A i \in 1..Len(frames) : ~IsZmqFailure(frames[i])

\* What a call did: its result, the number of frames it received (failed
\* zmq calls included), the scratch buffer it leaves.
Recv(res, used, buf) == [res |-> res, used |-> used, buf |-> buf]

\* <&Socket as ReceiveFrom>::receive_into(buf): Ok(self.recv_into(buf, 0)?),
\* the size of the frame received, which may exceed buf.len(), or the zmq
\* error.
Socket_receive_into_Copied(f, cap) ==
    IF IsZmqFailure(f) THEN Err(ZmqError) ELSE Ok(Min(f.len, cap))
Socket_receive_into(f, cap) ==
    IF IsZmqFailure(f) THEN Err(ZmqError) ELSE Ok(f.len)

\* <slice::Iter<zmq::Message> as ReceiveFrom>::receive_into(buf): Ok(len)
Iter_receive_into_Copied(f, cap) == Ok(Min(f.len, cap))
Iter_receive_into(f, cap) == Ok(f.len)

\* <&Socket as ReceiveFrom>::has_next after `used` frames were received:
\* Ok(self.get_rcvmore()?)
Socket_has_next(frames, used) ==
    IF used < Len(frames) /\ IsRcvmoreFailure(frames[used + 1]) THEN Err(ZmqError)
    ELSE Ok(used < Len(frames))

\* <slice::Iter<zmq::Message> as ReceiveFrom>::has_next after `used`
\* frames were taken: Ok(!self.as_slice().is_empty())
Iter_has_next_Always(frames, used) == Ok(TRUE)
Iter_has_next(frames, used) == Ok(SubSeq(frames, used + 1, Len(frames)) # <<>>)

\* socket.receive_into(buf) and socket.has_next() of recv_internal<R>
ReceiveInto(socket, f, cap) ==
    IF socket = "Socket" THEN Socket_receive_into(f, cap) ELSE Iter_receive_into(f, cap)

HasNext(socket, frames, used) ==
    IF socket = "Socket" THEN Socket_has_next(frames, used) ELSE Iter_has_next(frames, used)

\* A panic of the calling thread (an unwrap of None, a slice index out of
\* range): the call returns nothing.
Panicked(why) == [ok |-> FALSE, err |-> [kind |-> "panic", why |-> why]]

IsPanic(r) == ~r.ok /\ r.err.kind = "panic"

\* self.next() of the slice iterator is None once `used` frames were taken
Iter_next_is_none(frames, used) == used >= Len(frames)

\* receive_into of the iterator unwraps self.next(); the socket's recv_into
\* has no unwrap.
UnwrapsNone(socket, frames, used) ==
    socket = "Iter" /\ Iter_next_is_none(frames, used)

\* &buf[0..n] of an array of `cap` bytes is in range
SliceInRange(n, cap) == n <= cap

\* A drain loop that stops after one frame (mutation of DrainLoop).
DrainLoop_OneFrame(socket, frames, used, len) ==
    [res |-> Err(InvalidMutlipartLength(len + 1)), used |-> used + 1]

\* The loop after the third frame: socket.receive_into(&mut [])?; len += 1;
\* if !socket.has_next()? { return Err(InvalidMutlipartLength(len)) }.
\* `used` frames were received so far, `len` is the count.
RECURSIVE DrainLoop(_, _, _, _)
DrainLoop(socket, frames, used, len) ==
    IF UnwrapsNone(socket, frames, used)
    THEN [res |-> Panicked("unwrap"), used |-> used]
    ELSE
    LET r == ReceiveInto(socket, frames[used + 1], 0)
        more == HasNext(socket, frames, used + 1)
    IN  IF ~r.ok THEN [res |-> r, used |-> used + 1]
        ELSE IF ~more.ok THEN [res |-> more, used |-> used + 2]
        ELSE IF ~more.msg
        THEN [res |-> Err(InvalidMutlipartLength(len + 1)), used |-> used + 1]
        ELSE DrainLoop(socket, frames, used + 1, len + 1)

\* recv_internal(socket, data): `frames` is what the socket delivers from
\* the first frame of the call on (at least one element).  Every `?` returns
\* the zmq error at once.  Both implementations of receive_into copy
\* min(len, buf.len()) bytes.
RecvInternalWith(socket, frames, buf) ==
    IF UnwrapsNone(socket, frames, 0) THEN Recv(Panicked("unwrap"), 0, buf) ELSE
    LET topic_res == ReceiveInto(socket, frames[1], TOPIC_MAX_LEN)
        topic_len == topic_res.msg
        topic == SmallBuf(frames[1], TOPIC_MAX_LEN)
        more1 == HasNext(socket, frames, 1)
    IN  IF ~topic_res.ok THEN Recv(topic_res, 1, buf)
        ELSE IF topic_len > TOPIC_MAX_LEN
        THEN Recv(Err(InvalidTopic(topic_len, topic)), 1, buf)
        ELSE IF ~more1.ok THEN Recv(more1, 2, buf)
        ELSE IF ~more1.msg
        THEN Recv(Err(InvalidMutlipartLength(1)), 1, buf)
        ELSE IF UnwrapsNone(socket, frames, 1)
        THEN Recv(Panicked("unwrap"), 1, buf)
        ELSE
        LET data_res == ReceiveInto(socket, frames[2], DATA_MAX_LEN)
            data_len == data_res.msg
            buf2 == BufWrite(buf, frames[2])
            more2 == HasNext(socket, frames, 2)
        IN  IF ~data_res.ok THEN Recv(data_res, 2, buf)
            ELSE IF data_len > DATA_MAX_LEN
            THEN Recv(Err(InvalidDataLength(data_len)), 2, buf2)
            ELSE IF ~more2.ok THEN Recv(more2, 3, buf2)
            ELSE IF ~more2.msg
            THEN Recv(Err(InvalidMutlipartLength(2)), 2, buf2)
            ELSE IF UnwrapsNone(socket, frames, 2)
            THEN Recv(Panicked("unwrap"), 2, buf2)
            ELSE
            LET sequence_res == ReceiveInto(socket, frames[3], SEQUENCE_LEN)
                sequence_len == sequence_res.msg
                sequence == SmallBuf(frames[3], SEQUENCE_LEN)
                more3 == HasNext(socket, frames, 3)
            IN  IF ~sequence_res.ok THEN Recv(sequence_res, 3, buf2)
                ELSE IF sequence_len # SEQUENCE_LEN
                THEN Recv(Err(InvalidSequenceLength(sequence_len)), 3, buf2)
                ELSE IF ~more3.ok THEN Recv(more3, 4, buf2)
                ELSE IF ~more3.msg
                THEN IF SliceInRange(topic_len, TOPIC_MAX_LEN)
                        /\ SliceInRange(data_len, DATA_MAX_LEN)
                     THEN Recv(Message_from_parts(SubSeq(topic, 1, topic_len),
                                                  BufSlice(buf2, data_len),
                                                  sequence),
                               3, buf2)
                     ELSE Recv(Panicked("slice"), 3, buf2)
                ELSE LET d == DrainLoop(socket, frames, 3, 3)
                     IN  Recv(d.res, d.used, buf2)

\* recv_internal(&socket, &mut data) of the blocking loop
RecvInternal(frames, buf) == RecvInternalWith("Socket", frames, buf)

\* recv_internal(mp.iter(), &mut self.data_cache) of the async stream
RecvInternalIter(frames, buf) == RecvInternalWith("Iter", frames, buf)

-----------------------------------------------------------------------------
(* Socket monitor events: SocketEvent and MonitorMessageError              *)

MonInvalidMutlipartLength(n) ==
    [kind |-> "MonitorMessage", why |-> "InvalidMutlipartLength", frames |-> n]
MonInvalidEventFrameLength(n) ==
    [kind |-> "MonitorMessage", why |-> "InvalidEventFrameLength", flen |-> n]
MonInvalidEventData(e, d) ==
    [kind |-> "MonitorMessage", why |-> "InvalidEventData", event |-> e, data |-> d]
Disconnected(url) == [kind |-> "Disconnected", source_url |-> url]

\* define_socket_event_enum!: event code (zmq_sys::ZMQ_EVENT_*), variant,
\* and whether the variant carries the data word ("u32"), a HandshakeFailure
\* ("failure") or nothing ("none").
SocketEventTable ==
    << [code |-> 1,     name |-> "Connected",               field |-> "u32"],
       [code |-> 2,     name |-> "ConnectDelayed",          field |-> "none"],
       [code |-> 4,     name |-> "ConnectRetried",          field |-> "u32"],
       [code |-> 8,     name |-> "Listening",               field |-> "u32"],
       [code |-> 16,    name |-> "BindFailed",              field |-> "u32"],
       [code |-> 32,    name |-> "Accepted",                field |-> "u32"],
       [code |-> 64,    name |-> "AcceptFailed",            field |-> "u32"],
       [code |-> 128,   name |-> "Closed",                  field |-> "u32"],
       [code |-> 256,   name |-> "CloseFailed",             field |-> "u32"],
       [code |-> 512,   name |-> "Disconnected",            field |-> "u32"],
       [code |-> 1024,  name |-> "MonitorStopped",          field |-> "none"],
       [code |-> 2048,  name |-> "HandshakeFailedNoDetail", field |-> "u32"],
       [code |-> 4096,  name |-> "HandshakeSucceeded",      field |-> "none"],
       [code |-> 8192,  name |-> "HandshakeFailedProtocol", field |-> "failure"],
       [code |-> 16384, name |-> "HandshakeFailedAuth",     field |-> "u32"] >>

\* define_handshake_failure_enum!: the zmq_sys::ZMQ_PROTOCOL_ERROR_* values.
HandshakeFailureValues ==
    {268435456 + k : k \in {0, 1, 2, 3}}
        \cup {268435456 + k : k \in 17..24}
        \cup {285212673, 285212674}
        \cup {536870912 + k : k \in 0..5}

\* HandshakeFailure::from_raw(data)
HandshakeFailure_from_raw_Any(data) == Some(data)
HandshakeFailure_from_raw(data) ==
    IF data \in HandshakeFailureValues THEN Some(data) ELSE None

\* SocketEvent::from_raw(event, data): [some |-> FALSE] is None.
SocketEvent_from_raw(event, data) ==
    LET hits == {i \in 1..Len(SocketEventTable) : SocketEventTable[i].code = event}
    IN  IF hits = {}
        THEN [some |-> TRUE, ev |-> [name |-> "Unknown", event |-> event, data |-> data]]
        ELSE LET row == SocketEventTable[CHOOSE i \in hits : TRUE]
             IN  IF row.field = "none"
                 THEN [some |-> TRUE, ev |-> [name |-> row.name]]
                 ELSE IF row.field = "failure" /\ ~HandshakeFailure_from_raw(data).some
                 THEN [some |-> FALSE]
                 ELSE [some |-> TRUE, ev |-> [name |-> row.name, data |-> data]]

\* `bytes.try_into()` to [u8; 6]: succeeds for frames of exactly 6 bytes
IsEventFrameLength_AtLeast6(n) == n >= 6
IsEventFrameLength(n) == n = 6

\* SocketEvent::parse_from(msg).  from_ne_bytes is read on a little-endian
\* host.
SocketEvent_parse_from(msg) ==
    IF ~IsEventFrameLength(msg.len) THEN Err(MonInvalidEventFrameLength(msg.len))
    ELSE LET event_type == FromLeBytes([i \in 1..2 |-> FrameByte(msg, i)])
             data == FromLeBytes([i \in 1..4 |-> FrameByte(msg, 2 + i)])
             r == SocketEvent_from_raw(event_type, data)
         IN  IF r.some THEN Ok(r.ev)
             ELSE Err(MonInvalidEventData(event_type, data))

\* String::from_utf8_lossy: the characters (code points) of the frame's
\* bytes.  A well-formed UTF-8 sequence of 1 to 4 bytes is one character;
\* otherwise the longest prefix of a well-formed sequence (at least one
\* byte) becomes one U+FFFD.
Utf8Width(b) ==
    IF b < 128 THEN 1
    ELSE IF b >= 194 /\ b <= 223 THEN 2
    ELSE IF b >= 224 /\ b <= 239 THEN 3
    ELSE IF b >= 240 /\ b <= 244 THEN 4
    ELSE 0

\* The second byte of a sequence led by b: 0xE0 needs A0..BF, 0xED 80..9F,
\* 0xF0 90..BF, 0xF4 80..8F, every other lead 80..BF.
Utf8SecondOk(b, b2) ==
    /\ b2 >= (IF b = 224 THEN 160 ELSE IF b = 240 THEN 144 ELSE 128)
    /\ b2 <= (IF b = 237 THEN 159 ELSE IF b = 244 THEN 143 ELSE 191)

Utf8Continuation(b) == b >= 128 /\ b <= 191

\* The character decoded at byte i of f and the number of bytes it takes.
Utf8CharAt(f, i) ==
    LET At(k) == IF k <= f.len THEN FrameByte(f, k) ELSE -1
        b == At(i)
        w == Utf8Width(b)
        Bad(n) == [char |-> 65533, width |-> n]
    IN  IF w = 1 THEN [char |-> b, width |-> 1]
        ELSE IF w = 0 THEN Bad(1)
        ELSE IF ~Utf8SecondOk(b, At(i + 1)) THEN Bad(1)
        ELSE IF w = 2
        THEN [char |-> (b - 192) * 64 + (At(i + 1) - 128), width |-> 2]
        ELSE IF ~Utf8Continuation(At(i + 2)) THEN Bad(2)
        ELSE IF w = 3
        THEN [char |-> (b - 224) * 4096 + (At(i + 1) - 128) * 64 + (At(i + 2) - 128),
              width |-> 3]
        ELSE IF ~Utf8Continuation(At(i + 3)) THEN Bad(3)
        ELSE [char |-> (b - 240) * 262144 + (At(i + 1) - 128) * 4096
                          + (At(i + 2) - 128) * 64 + (At(i + 3) - 128),
              width |-> 4]

RECURSIVE Utf8LossyFrom(_, _)
Utf8LossyFrom(f, i) ==
    IF i > f.len THEN <<>>
    ELSE LET c == Utf8CharAt(f, i)
         IN  <<c.char>> \o Utf8LossyFrom(f, i + c.width)

FromUtf8Lossy(f) == Utf8LossyFrom(f, 1)

\* MonitorMessage::parse_from(msg)
MonitorMessage_parse_from(msg) ==
    IF Len(msg) # 2 THEN Err(MonInvalidMutlipartLength(Len(msg)))
    ELSE LET e == SocketEvent_parse_from(msg[1])
         IN  IF e.ok
             THEN Ok([event |-> e.msg, source_url |-> FromUtf8Lossy(msg[2])])
             ELSE e

-----------------------------------------------------------------------------
(* What the monitor channel may yield                                      *)

\* The 6-byte event frame of (code, data) on a little-endian host.
EventFrame(code, data) ==
    Bytes(<<code % 256, code \div 256,
            data % 256, (data \div 256) % 256,
            (data \div 65536) % 256, data \div 16777216>>)

UrlA == Bytes(<<116, 99, 112, 58, 97>>)
UrlB == Bytes(<<116, 99, 112, 58, 98, 255>>)

\* A received multipart message, or a failed receive.
Received(frames) == [recv_ok |-> TRUE, frames |-> frames]
RecvFailed == [recv_ok |-> FALSE]

MonHandshakeSucceeded == Received(<<EventFrame(4096, 0), UrlA>>)
MonHandshakeSucceededB == Received(<<EventFrame(4096, 0), UrlB>>)
MonDisconnectedA == Received(<<EventFrame(512, 11), UrlA>>)
MonDisconnectedB == Received(<<EventFrame(512, 12), UrlB>>)
MonConnected == Received(<<EventFrame(1, 11), UrlA>>)
MonUnknown == Received(<<EventFrame(32768, 70000), UrlB>>)
MonThreeFrames == Received(<<EventFrame(4096, 0), UrlA, UrlB>>)
MonShortFrame == Received(<<Bytes(<<0, 16, 0, 0, 0>>), UrlA>>)
MonBadFailure == Received(<<EventFrame(8192, 7), UrlA>>)

HandshakeCatalog ==
    {MonHandshakeSucceeded, MonDisconnectedA, MonConnected, MonUnknown,
     MonShortFrame, RecvFailed}

\* The monitor stream yielded only well-formed messages in items 1..n.
IsWellFormed(item) == item.recv_ok /\ MonitorMessage_parse_from(item.frames).ok
EventName(item) == MonitorMessage_parse_from(item.frames).msg.event.name

MonInit ==
    /\ monItems = <<>>
    /\ monRead = 0

MonitorYields(item) ==
    /\ Len(monItems) < MaxMonitor
    /\ monItems' = Append(monItems, item)

\* No poll of the checked stream yet.
NoPoll == [polled |-> FALSE]

\* The state of the streams while no stream is in use.
StreamUnused ==
    /\ dataItems = <<>>
    /\ dataRead = 0
    /\ inner = "None"
    /\ out = <<>>
    /\ lastPoll = NoPoll

\* MessageStream::new(inner): the stream a handshake-wait call returns on
\* success holds its inner stream, and with it the sockets, until it has
\* yielded Err(Disconnected).
StreamInit ==
    /\ dataItems = <<>>
    /\ dataRead = 0
    /\ inner = "Some"
    /\ out = <<>>
    /\ lastPoll = NoPoll

-----------------------------------------------------------------------------
(* Multipart messages a publisher may send                                 *)

Seq4(n) == Bytes(<<n, 0, 0, 0>>)
Hash32(a, b) == Frame(32, <<a, b>>)

MsgHashBlock == <<Bytes(TopicHashBlock), Hash32(1, 2), Seq4(7)>>
MsgSequenceC ==
    <<Bytes(TopicSequence), Frame(33, [i \in 1..33 |-> IF i = 33 THEN LabelC ELSE i]),
      Seq4(8)>>
MsgOneFrame == <<Bytes(TopicHashTx)>>
MsgTwoFrames == <<Bytes(TopicRawTx), Frame(5, <<1, 5>>)>>
MsgFourFrames == <<Bytes(TopicHashTx), Hash32(9, 9), Seq4(4), Bytes(<<103>>)>>
MsgFiveFrames ==
    <<Bytes(TopicRawTx), Frame(5, <<1, 6>>), Seq4(5), Bytes(<<>>), Bytes(TopicHashTx)>>
\* "hashblock!": a topic frame of TOPIC_MAX_LEN + 1 bytes
MsgLongTopic == <<Bytes(TopicHashBlock \o <<33>>), Hash32(3, 4), Seq4(1)>>
MsgBigData == <<Bytes(TopicRawBlock), Frame(DATA_MAX_LEN + 1, <<1>>), Seq4(2)>>
\* one frame, "hashblock!"
MsgLongTopicOnly == <<Bytes(TopicHashBlock \o <<33>>)>>
\* a blocking recv_into that fails while no message is being read
MsgRecvFails == <<ZmqFails("recv_into")>>
\* a topic frame after which get_rcvmore fails
MsgRcvmoreFails == <<Bytes(TopicHashTx), ZmqFails("get_rcvmore")>>
\* five frames, recv_into failing once before the fifth
MsgDrainFails ==
    <<Bytes(TopicHashTx), Hash32(9, 9), Seq4(4), Bytes(<<3>>), ZmqFails("recv_into"),
      Bytes(<<1>>)>>
MsgBadSequence ==
    <<Bytes(TopicHashTx), Hash32(5, 6), Bytes(<<1, 2, 3, 4, 5>>), Bytes(TopicHashBlock)>>

DataCatalog ==
    {MsgHashBlock, MsgSequenceC, MsgOneFrame, MsgTwoFrames, MsgFourFrames,
     MsgFiveFrames, MsgLongTopic, MsgLongTopicOnly, MsgBigData, MsgBadSequence,
     MsgRecvFails, MsgRcvmoreFails, MsgDrainFails}

-----------------------------------------------------------------------------
(* The subscriber socket                                                   *)

NoCall == [none |-> TRUE]
NoValue == "NoValue"
BreakValues == {"b1", "b2"}
ControlFlows == {[brk |-> FALSE]} \cup {[brk |-> TRUE, val |-> v] : v \in BreakValues}

SockInit ==
    /\ published = <<>>
    /\ rx_msg = 0
    /\ rx_frame = 0
    /\ data_cache = EmptyBuf

\* The publisher sends one multipart message; ZeroMQ delivers all of its
\* frames or none.  (m may also hold or be a failing zmq call, see ZmqFails.)
Publish(m) ==
    /\ Len(published) < MaxPublished
    /\ published' = Append(published, m)

\* The frames the socket holds of the message being read.
SocketFrames ==
    SubSeq(published[rx_msg + 1], rx_frame + 1, Len(published[rx_msg + 1]))

\* The read position after `used` more frames of the current message.
SocketAdvance(used) ==
    IF rx_frame + used = Len(published[rx_msg + 1])
    THEN /\ rx_msg' = rx_msg + 1
         /\ rx_frame' = 0
    ELSE /\ rx_msg' = rx_msg
         /\ rx_frame' = rx_frame + used

-----------------------------------------------------------------------------
(* The blocking delivery loop: subscribe_internal                          *)

BlockInit ==
    /\ bl_pc = "recv"
    /\ bl_call = NoCall
    /\ bl_ret = NoValue
    /\ recvLog = <<>>
    /\ cbLog = <<>>

\* A loop that also ends on an Err result (mutation of SubscribeInternalFlow).
SubscribeInternalFlow_EndsOnErr(msg, flow) ==
    IF flow.brk THEN [pc |-> "returned", ret |-> flow.val]
    ELSE IF ~msg.ok THEN [pc |-> "returned", ret |-> NoValue]
    ELSE [pc |-> "recv", ret |-> NoValue]

\* `callback(msg)?`: what the loop does with the callback's answer.
SubscribeInternalFlow(msg, flow) ==
    IF flow.brk THEN [pc |-> "returned", ret |-> flow.val]
    ELSE [pc |-> "recv", ret |-> NoValue]

\* let msg = recv_internal(&socket, &mut data);  (blocks until a message
\* has arrived)
BlockingRecv ==
    /\ bl_pc = "recv"
    /\ rx_msg < Len(published)
    /\ LET r == RecvInternal(SocketFrames, data_cache)
       IN  /\ SocketAdvance(r.used)
           /\ data_cache' = r.buf
           /\ bl_call' = [start |-> rx_frame, frames |-> SocketFrames,
                          res |-> r.res, used |-> r.used]
           /\ recvLog' = Append(recvLog, r.res)
    /\ bl_pc' = "callback"
    /\ UNCHANGED <<published, bl_ret, cbLog, asyncVars, subVars, codecVars>>

\* callback(msg)?;
BlockingCallback(flow) ==
    /\ bl_pc = "callback"
    /\ cbLog' = Append(cbLog, [res |-> bl_call.res, flow |-> flow])
    /\ bl_pc' = SubscribeInternalFlow(bl_call.res, flow).pc
    /\ bl_ret' = SubscribeInternalFlow(bl_call.res, flow).ret
    /\ bl_call' = NoCall
    /\ UNCHANGED <<sockVars, recvLog, asyncVars, subVars, codecVars>>

BlockingPublish ==
    /\ \E m \in DataCatalog : Publish(m)
    /\ UNCHANGED <<rx_msg, rx_frame, data_cache, blockVars, asyncVars, subVars, codecVars>>

BlockingDeliver == \E flow \in ControlFlows : BlockingCallback(flow)

-----------------------------------------------------------------------------
(* subscribe_receiver: the loop in a background thread, its callback       *)
(* pushing every result onto an mpsc channel                               *)

\* subscribe_multi_blocking is not called.
FanUnused ==
    /\ mb_pc = "none"
    /\ mb_N = 0
    /\ mb_readers = <<>>
    /\ mb_tx = FALSE
    /\ mb_ret = NoValue

\* (tx, rx) = channel(): empty, Receiver alive.
ChannelInit ==
    /\ chan = <<>>
    /\ rxAlive = TRUE
    /\ rxLog = <<>>
    /\ dropAt = -1
    /\ FanUnused

\* The state of the channel while no channel is in use.
ChannelUnused ==
    /\ chan = <<>>
    /\ rxAlive = FALSE
    /\ rxLog = <<>>
    /\ dropAt = -1
    /\ FanUnused

\* No call failed.
NoFailure == [failed |-> FALSE]

\* The state of subscription creation while it is not modelled: the
\* subscription exists.
SetupUnused ==
    /\ su_api = "none"
    /\ su_N = 0
    /\ su_pc = "done"
    /\ su_k = 0
    /\ su_m = 0
    /\ su_result = [none |-> TRUE]
    /\ su_fail = NoFailure

SubUnused == ChannelUnused /\ SetupUnused

\* The codec is not exercised on its own in this specification.
CodecUnused == cx_src = [src |-> "none"] /\ cx_trace = <<>>

\* tx.send(msg): Err(_) exactly when the Receiver was dropped.
SendOk(alive) == alive

\* The callback: Err(_) => Break(()), Ok(()) => Continue(()).
SendFlow_IgnoresFailure(sent) == [brk |-> FALSE]
SendFlow(sent) == IF sent THEN [brk |-> FALSE] ELSE [brk |-> TRUE, val |-> "unit"]

\* The channel after a successful send: the item is queued last.
ChannelPush_First(q, item) == <<item>> \o q
ChannelPush(q, item) == Append(q, item)

\* callback(msg)? with the closure of subscribe_receiver.
ChannelSend ==
    /\ bl_pc = "callback"
    /\ LET flow == SendFlow(SendOk(rxAlive))
       IN  /\ chan' = IF SendOk(rxAlive) THEN ChannelPush(chan, bl_call.res) ELSE chan
           /\ cbLog' = Append(cbLog, [res |-> bl_call.res, flow |-> flow])
           /\ bl_pc' = SubscribeInternalFlow(bl_call.res, flow).pc
           /\ bl_ret' = SubscribeInternalFlow(bl_call.res, flow).ret
    /\ bl_call' = NoCall
    /\ UNCHANGED <<sockVars, recvLog, asyncVars, rxAlive, rxLog, dropAt, fanVars, setupVars, codecVars>>

\* The consumer reads the oldest item from the Receiver.
ReceiverRecv ==
    /\ rxAlive
    /\ chan # <<>>
    /\ rxLog' = Append(rxLog, Head(chan))
    /\ chan' = Tail(chan)
    /\ UNCHANGED <<sockVars, blockVars, asyncVars, rxAlive, dropAt, fanVars, setupVars, codecVars>>

\* The consumer drops the Receiver; what was queued is dropped with it.
ReceiverDrop ==
    /\ rxAlive
    /\ rxAlive' = FALSE
    /\ chan' = <<>>
    /\ dropAt' = Len(recvLog)
    /\ UNCHANGED <<sockVars, blockVars, asyncVars, rxLog, fanVars, setupVars, codecVars>>

\* What the publishers send to a subscribe_receiver subscription.
ChannelCatalog == {MsgHashBlock, MsgSequenceC, MsgTwoFrames, MsgBigData, MsgRecvFails}

ChannelPublish ==
    /\ \E m \in ChannelCatalog : Publish(m)
    /\ UNCHANGED <<rx_msg, rx_frame, data_cache, blockVars, asyncVars, subVars, codecVars>>


-----------------------------------------------------------------------------
(* subscribe_async_wait_handshake, and the timeout combinator racing it    *)
(* against the thread-based timer                                          *)

NoResult == [none |-> TRUE]
TheStream == [ok |-> TRUE, msg |-> "MessageStream"]
TimedOut == [timeout |-> TRUE]
Completed(r) == [timeout |-> FALSE, r |-> r]

\* What the call returns when the handshake-wait future completes with r.
CallResult(r) == IF to_mode = "timeout" THEN Completed(r) ELSE r

\* if connecting == 0 { return Ok(..) }  (before the loop)
ResolvesAtOnce_Never(n) == FALSE
ResolvesAtOnce(n) == n = 0

\* The match on the event kind: the new value of `connecting`.
CountEvent_HandshakeResolves(c, name) ==
    IF name = "HandshakeSucceeded" THEN 0
    ELSE IF name = "Disconnected" THEN c + 1
    ELSE c
CountEvent_IgnoresDisconnected(c, name) ==
    IF name = "HandshakeSucceeded" THEN c - 1 ELSE c
CountEvent(c, name) ==
    IF name = "HandshakeSucceeded" THEN c - 1
    ELSE IF name = "Disconnected" THEN c + 1
    ELSE c

\* `_ => { continue; }`: any other event leaves the future in the loop.
OtherEvent_Resolves(c) == [pc |-> "resolved", c |-> c, res |-> TheStream]
OtherEvent(c) == [pc |-> "loop", c |-> c, res |-> NoResult]

\* `?` and `let .. else { return Err(..) }` on a monitor message that was
\* not received or is malformed: the future completes with the error.
OnMalformed_Skips(c, e) == [pc |-> "loop", c |-> c, res |-> NoResult]
OnMalformed(c, e) == [pc |-> "error", c |-> c, res |-> e]

\* `stream.monitor.next().await` found the monitor socket Pending, with dr
\* data items read so far: the wait polls the monitor field only, not the
\* combined stream, so the data stream is not polled.
WaitPollsData_Combined(dr) == IF dr < Len(dataItems) THEN dr + 1 ELSE dr
WaitPollsData(dr) == dr

\* if connecting == 0 { return Ok(..) }  (after the match, in the loop)
ResolvesAfterEvent_Never(c) == FALSE
ResolvesAfterEvent(c) == c = 0

\* One iteration of the loop on the item the monitor stream yielded: the
\* future's next position, the counter, and the result if it completes.
HandshakeOnItem(c, item) ==
    IF ~item.recv_ok
    THEN OnMalformed(c, Err(ZmqError))
    ELSE IF Len(item.frames) # 2
    THEN OnMalformed(c, Err(MonInvalidMutlipartLength(Len(item.frames))))
    ELSE LET e == SocketEvent_parse_from(item.frames[1])
         IN  IF ~e.ok THEN OnMalformed(c, e)
             ELSE IF e.msg.name \notin {"HandshakeSucceeded", "Disconnected"}
             THEN OtherEvent(c)
             ELSE IF ResolvesAfterEvent(CountEvent(c, e.msg.name))
             THEN [pc |-> "resolved", c |-> 0, res |-> TheStream]
             ELSE [pc |-> "loop", c |-> CountEvent(c, e.msg.name), res |-> NoResult]

\* Sleep::poll: `if let SleepReadyState::Done = *g`
SleepIsReady_Never(state) == FALSE
SleepIsReady_OncePolled(state) == state # "Pending"
SleepIsReady(state) == state = "Done"

\* Sleep::poll, not Done: `*g = SleepReadyState::PendingPolled(waker)`
SleepStateAfterPoll_KeepsState(state) == state
SleepStateAfterPoll(state) == "PendingPolled"

\* Wakers: NoWaker where no Waker is held; the waker of the task that
\* awaits select(), cloned from the context of each of its polls.
NoWaker == 0
TaskWaker == 1

\* Sleep::poll, not Done: the Waker the new state holds; cx.waker().clone()
\* replaces what the state held.
RegisteredWaker_KeepsFirst(state, held, w) ==
    IF SleepStateAfterPoll(state) # "PendingPolled" \/ held # NoWaker THEN held ELSE w
RegisteredWaker(state, held, w) ==
    IF SleepStateAfterPoll(state) = "PendingPolled" THEN w ELSE held

\* The latest Sleep::poll: the waker of its context, and whether it
\* returned Poll::Ready.
SleepPolled(w, ready) == [polled |-> TRUE, waker |-> w, ready |-> ready]

\* The timer thread: `if let SleepReadyState::PendingPolled(waker) = state`
TimerWakes_UnlessReturned(old) == old = "PendingPolled" /\ to_pc # "returned"
TimerWakes_Never(old) == FALSE
TimerWakes(old) == old = "PendingPolled"

HandshakeInit ==
    /\ hs_N \in 0..MaxEndpoints
    /\ hs_pc = "init"
    /\ connecting = 0
    /\ hs_res = NoResult
    /\ to_mode \in {"plain", "timeout"}
    /\ to_pc = "pollA"
    /\ to_result = NoResult
    /\ woken = FALSE
    /\ sleepState = "Pending"
    /\ timer_pc = IF to_mode = "timeout" THEN "sleeping" ELSE "none"
    /\ timer_old = "Pending"
    /\ wakes = 0
    /\ sleepWaker = NoWaker
    /\ timer_waker = NoWaker
    /\ lastSleepPoll = NoPoll

\* The monitored socket exists and has not been dropped.
SocketAlive ==
    /\ hs_pc \in {"created", "loop", "parked", "resolved"}
    /\ to_result # TimedOut

\* The handshake-wait future completes with r: the poll, and the call, return.
HsCompletes(pc, r) ==
    /\ hs_pc' = pc
    /\ hs_res' = r
    /\ to_pc' = "returned"
    /\ to_result' = CallResult(r)

\* let mut stream = subscribe_async_monitor(endpoints)?;
\* let mut connecting = endpoints.len();
HsSetup ==
    /\ to_pc = "pollA"
    /\ hs_pc = "init"
    /\ \E setup_ok \in BOOLEAN :
          IF setup_ok
          THEN /\ hs_pc' = "created"
               /\ connecting' = hs_N
               /\ UNCHANGED <<hs_res, to_pc, to_result>>
          ELSE /\ HsCompletes("setup_error", Err(ZmqError))
               /\ UNCHANGED connecting
    /\ UNCHANGED <<hs_N, to_mode, woken, sleepState, timer_pc, timer_old, wakes, wakerVars,
                   monVars, sockVars, blockVars, streamVars, subVars, codecVars>>

\* if connecting == 0 { return Ok(MessageStream::new(stream)); }
HsCheckZero ==
    /\ to_pc = "pollA"
    /\ hs_pc = "created"
    /\ IF ResolvesAtOnce(connecting)
       THEN HsCompletes("resolved", TheStream)
       ELSE /\ hs_pc' = "loop"
            /\ UNCHANGED <<hs_res, to_pc, to_result>>
    /\ UNCHANGED <<hs_N, connecting, to_mode, woken, sleepState, timer_pc,
                   timer_old, wakes, wakerVars, monVars, sockVars, blockVars, streamVars, subVars, codecVars>>

\* stream.monitor.next().await yields an item: one iteration of the loop.
HsRead ==
    /\ to_pc = "pollA"
    /\ hs_pc \in {"loop", "parked"}
    /\ monRead < Len(monItems)
    /\ LET o == HandshakeOnItem(connecting, monItems[monRead + 1])
       IN  /\ monRead' = monRead + 1
           /\ connecting' = o.c
           /\ IF o.pc = "loop"
              THEN /\ hs_pc' = "loop"
                   /\ UNCHANGED <<hs_res, to_pc, to_result>>
              ELSE HsCompletes(o.pc, o.res)
    /\ UNCHANGED <<hs_N, to_mode, woken, sleepState, timer_pc, timer_old, wakes, wakerVars,
                   monItems, sockVars, blockVars, streamVars, subVars, codecVars>>

\* stream.monitor.next().await is Pending: the monitor socket has the task's
\* waker; select() goes on to poll the timer, a plain call parks.
HsPending ==
    /\ to_pc = "pollA"
    /\ hs_pc \in {"loop", "parked"}
    /\ monRead = Len(monItems)
    /\ hs_pc' = "parked"
    /\ to_pc' = IF to_mode = "timeout" THEN "pollB" ELSE "parked"
    /\ dataRead' = WaitPollsData(dataRead)
    /\ UNCHANGED <<hs_N, connecting, hs_res, to_mode, to_result, woken, sleepState,
                   timer_pc, timer_old, wakes, wakerVars, monVars, sockVars, blockVars,
                   dataItems, inner, out, lastPoll, subVars, codecVars>>

\* Sleep::poll, polled by select() after the handshake-wait future was
\* Pending.
SleepPoll ==
    /\ to_pc = "pollB"
    /\ IF SleepIsReady(sleepState)
       THEN /\ to_pc' = "returned"
            /\ to_result' = TimedOut
            /\ lastSleepPoll' = SleepPolled(TaskWaker, TRUE)
            /\ UNCHANGED <<sleepState, sleepWaker>>
       ELSE /\ sleepState' = SleepStateAfterPoll(sleepState)
            /\ sleepWaker' = RegisteredWaker(sleepState, sleepWaker, TaskWaker)
            /\ lastSleepPoll' = SleepPolled(TaskWaker, FALSE)
            /\ to_pc' = "parked"
            /\ UNCHANGED to_result
    /\ UNCHANGED <<hsVars, to_mode, woken, timer_pc, timer_old, wakes, timer_waker,
                   monVars, sockVars, blockVars, streamVars, subVars, codecVars>>

\* The executor polls the task again after its waker was woken: the
\* handshake wait resumes at its await of the monitor stream.
TaskRepoll ==
    /\ to_pc = "parked"
    /\ woken
    /\ woken' = FALSE
    /\ to_pc' = "pollA"
    /\ UNCHANGED <<hsVars, to_mode, to_result, sleepState,
                   timer_pc, timer_old, wakes, wakerVars, monVars, sockVars, blockVars, streamVars, subVars, codecVars>>

\* thread::sleep(dur) returns in the timer thread.
TimerSleepEnds ==
    /\ timer_pc = "sleeping"
    /\ timer_pc' = "slept"
    /\ UNCHANGED <<hsVars, to_mode, to_pc, to_result, woken, sleepState, timer_old,
                   wakes, wakerVars, monVars, sockVars, blockVars, streamVars, subVars, codecVars>>

\* mem::replace(&mut *g, SleepReadyState::Done) under the lock.
TimerStoresDone ==
    /\ timer_pc = "slept"
    /\ timer_old' = sleepState
    /\ sleepState' = "Done"
    /\ timer_waker' = sleepWaker
    /\ sleepWaker' = NoWaker
    /\ timer_pc' = "stored"
    /\ UNCHANGED <<hsVars, to_mode, to_pc, to_result, woken, wakes, lastSleepPoll,
                   monVars, sockVars, blockVars, streamVars, subVars, codecVars>>

\* if let PendingPolled(waker) = state { waker.wake(); }  and the thread ends.
TimerWake ==
    /\ timer_pc = "stored"
    /\ IF TimerWakes(timer_old)
       THEN /\ woken' = TRUE
            /\ wakes' = wakes + 1
       ELSE UNCHANGED <<woken, wakes>>
    /\ timer_pc' = "exited"
    /\ UNCHANGED <<hsVars, to_mode, to_pc, to_result, sleepState, timer_old, wakerVars,
                   monVars, sockVars, blockVars, streamVars, subVars, codecVars>>

\* The monitor channel gets an item; a future parked on it is woken.  The
\* monitor socket lives on inside the stream the call returned, until that
\* stream drops its inner stream.
HsMonitorYieldsOf(catalog) ==
    /\ SocketAlive
    /\ to_pc = "returned" => inner = "Some"
    /\ \E item \in catalog : MonitorYields(item)
    /\ woken' = (woken \/ hs_pc = "parked")
    /\ UNCHANGED <<monRead, hsVars, to_mode, to_pc, to_result, sleepState, timer_pc,
                   timer_old, wakes, wakerVars, sockVars, blockVars, streamVars, subVars, codecVars>>

HsMonitorYields == HsMonitorYieldsOf(HandshakeCatalog)

InitHandshake ==
    /\ HandshakeInit /\ MonInit /\ SockInit /\ BlockInit /\ StreamInit /\ SubUnused
    /\ CodecUnused

NextHandshake ==
    \/ HsSetup
    \/ HsCheckZero
    \/ HsRead
    \/ HsPending
    \/ SleepPoll
    \/ TaskRepoll
    \/ TimerSleepEnds
    \/ TimerStoresDone
    \/ TimerWake
    \/ HsMonitorYields

SpecHandshake == InitHandshake /\ [][NextHandshake]_vars

\* What the executor does with the task, and what the timer thread does.
TaskStep == HsSetup \/ HsCheckZero \/ HsRead \/ HsPending \/ SleepPoll \/ TaskRepoll
TimerStep == TimerSleepEnds \/ TimerStoresDone \/ TimerWake

\* The executor polls a task that was woken and goes through a poll it
\* began; the timer thread is scheduled.
TaskFairness == WF_vars(TaskStep)
TimerFairness == WF_vars(TimerStep)

\* The call with a timeout, under fair scheduling; what the monitor channel
\* yields, and when, is left to the environment.
TimeoutCatalog == {MonHandshakeSucceeded, RecvFailed}

TimeoutMonitorYields == HsMonitorYieldsOf(TimeoutCatalog)

InitTimeout == InitHandshake /\ to_mode = "timeout"

\* The plain call under fair scheduling of its task, with the monitor
\* channel reporting handshakes and disconnects of two endpoint URLs.
EndpointCatalog ==
    {MonHandshakeSucceeded, MonHandshakeSucceededB, MonDisconnectedA, MonDisconnectedB}

EndpointMonitorYields == HsMonitorYieldsOf(EndpointCatalog)

WaitStep == HsSetup \/ HsCheckZero \/ HsRead \/ HsPending \/ TaskRepoll

InitEndpoints == InitHandshake /\ to_mode = "plain"

NextEndpoints == WaitStep \/ EndpointMonitorYields

\* The plain call with a monitor channel that also yields malformed
\* messages and receive errors.
AbortCatalog ==
    {MonHandshakeSucceeded, MonThreeFrames, MonShortFrame, MonBadFailure, RecvFailed}

AbortMonitorYields == HsMonitorYieldsOf(AbortCatalog)

NextAbort == WaitStep \/ AbortMonitorYields

SpecAbort == InitEndpoints /\ [][NextAbort]_vars

FairSpecEndpoints == InitEndpoints /\ [][NextEndpoints]_vars /\ WF_vars(WaitStep)

NextTimeout == TaskStep \/ TimerStep \/ TimeoutMonitorYields

FairSpecTimeout ==
    InitTimeout /\ [][NextTimeout]_vars /\ TaskFairness /\ TimerFairness

\* The state of the async part while only the blocking models run.
HandshakeUnused ==
    /\ hs_N = 0
    /\ hs_pc = "init"
    /\ connecting = 0
    /\ hs_res = NoResult
    /\ to_mode = "plain"
    /\ to_pc = "returned"
    /\ to_result = NoResult
    /\ woken = FALSE
    /\ sleepState = "Pending"
    /\ timer_pc = "none"
    /\ timer_old = "Pending"
    /\ wakes = 0
    /\ sleepWaker = NoWaker
    /\ timer_waker = NoWaker
    /\ lastSleepPoll = NoPoll

AsyncUnused == MonInit /\ HandshakeUnused /\ StreamUnused

\* The future sleep(dur) returns, polled by an executor of its own: each
\* poll comes with the waker of its context, and nothing keeps an executor
\* from polling again after Pending or after Ready.
Wakers == 1..MaxWakers

\* let timeout = sleep(dur);
SleepInit ==
    /\ hs_N = 0
    /\ hs_pc = "init"
    /\ connecting = 0
    /\ hs_res = NoResult
    /\ to_mode = "direct"
    /\ to_pc = "pollB"
    /\ to_result = NoResult
    /\ woken = FALSE
    /\ sleepState = "Pending"
    /\ timer_pc = "sleeping"
    /\ timer_old = "Pending"
    /\ wakes = 0
    /\ sleepWaker = NoWaker
    /\ timer_waker = NoWaker
    /\ lastSleepPoll = NoPoll

\* Sleep::poll with the context waker w.
SleepPollBy ==
    /\ to_mode = "direct"
    /\ \E w \in Wakers :
          IF SleepIsReady(sleepState)
          THEN /\ lastSleepPoll' = SleepPolled(w, TRUE)
               /\ UNCHANGED <<sleepState, sleepWaker>>
          ELSE /\ sleepState' = SleepStateAfterPoll(sleepState)
               /\ sleepWaker' = RegisteredWaker(sleepState, sleepWaker, w)
               /\ lastSleepPoll' = SleepPolled(w, FALSE)
    /\ UNCHANGED <<hsVars, to_mode, to_pc, to_result, woken, timer_pc, timer_old, wakes,
                   timer_waker, monVars, sockVars, blockVars, streamVars, subVars, codecVars>>

InitSleep ==
    /\ SleepInit /\ MonInit /\ SockInit /\ BlockInit /\ StreamUnused /\ SubUnused
    /\ CodecUnused

NextSleep == SleepPollBy \/ TimerSleepEnds \/ TimerStoresDone \/ TimerWake

SpecSleep == InitSleep /\ [][NextSleep]_vars

InitBlocking == SockInit /\ BlockInit /\ AsyncUnused /\ SubUnused /\ CodecUnused

NextBlocking == BlockingPublish \/ BlockingRecv \/ BlockingDeliver

SpecBlocking == InitBlocking /\ [][NextBlocking]_vars

InitChannel ==
    SockInit /\ BlockInit /\ AsyncUnused /\ ChannelInit /\ SetupUnused /\ CodecUnused

NextChannel ==
    \/ ChannelPublish
    \/ BlockingRecv
    \/ ChannelSend
    \/ ReceiverRecv
    \/ ReceiverDrop

SpecChannel == InitChannel /\ [][NextChannel]_vars

-----------------------------------------------------------------------------
(* subscribe_multi_blocking: one reader thread per endpoint pushing onto   *)
(* one mpsc channel, the calling thread running the callback on each item  *)

\* What the socket of a reader thread delivers.
FanCatalog == {MsgHashBlock, MsgOneFrame, MsgRecvFails}

\* A reader thread just spawned: it owns a clone of `tx`.
ReaderSpawned == [running |-> TRUE, pushes |-> 0]

RECURSIVE RunningReaders(_)
RunningReaders(readers) ==
    IF readers = <<>> THEN 0
    ELSE (IF Head(readers).running THEN 1 ELSE 0) + RunningReaders(Tail(readers))

RECURSIVE TotalPushes(_)
TotalPushes(readers) ==
    IF readers = <<>> THEN 0 ELSE Head(readers).pushes + TotalPushes(Tail(readers))

\* The Senders of the channel that are alive: `tx` of the function, held
\* until the function ends, and the clone each running reader thread owns.
SendersAlive_ReadersOnly(tx, readers) == RunningReaders(readers)
SendersAlive(tx, readers) == (IF tx THEN 1 ELSE 0) + RunningReaders(readers)

\* let (tx, rx) = channel(); let context = Context::new();
FanInit ==
    /\ chan = <<>>
    /\ rxAlive = TRUE
    /\ rxLog = <<>>
    /\ dropAt = -1
    /\ mb_pc = "spawn"
    /\ mb_N \in 0..MaxEndpoints
    /\ mb_readers = <<>>
    /\ mb_tx = TRUE
    /\ mb_ret = NoValue

\* One round of `for endpoint in endpoints`: tx.clone(), the socket is
\* created, the reader thread is spawned.
MbSpawn ==
    /\ mb_pc = "spawn"
    /\ Len(mb_readers) < mb_N
    /\ mb_readers' = Append(mb_readers, ReaderSpawned)
    /\ UNCHANGED <<sockVars, blockVars, asyncVars, chan, rxAlive, rxLog, dropAt,
                   mb_pc, mb_N, mb_tx, mb_ret, setupVars, codecVars>>

\* new_socket_internal(&context, endpoint)? fails: the function returns the
\* error; tx and rx are dropped.
MbSocketFails ==
    /\ mb_pc = "spawn"
    /\ Len(mb_readers) < mb_N
    /\ mb_pc' = "failed"
    /\ mb_tx' = FALSE
    /\ rxAlive' = FALSE
    /\ chan' = <<>>
    /\ UNCHANGED <<sockVars, blockVars, asyncVars, rxLog, dropAt,
                   mb_N, mb_readers, mb_ret, setupVars, codecVars>>

\* The endpoints are exhausted: the closure with the loop is entered.
MbLoopStart ==
    /\ mb_pc = "spawn"
    /\ Len(mb_readers) = mb_N
    /\ mb_pc' = "loop"
    /\ UNCHANGED <<sockVars, blockVars, asyncVars, chan, rxAlive, rxLog, dropAt,
                   mb_N, mb_readers, mb_tx, mb_ret, setupVars, codecVars>>

\* One round of `for msg in rx { callback(msg)?; }`: the iterator blocks
\* while the channel is empty and a Sender is alive, ends when it is empty
\* and no Sender is alive (then unreachable!() is executed), and otherwise
\* yields the oldest item, on which the callback decides.  Returning drops
\* rx and then tx.
MbNext ==
    /\ mb_pc = "loop"
    /\ chan # <<>> \/ SendersAlive(mb_tx, mb_readers) = 0
    /\ \E flow \in ControlFlows :
          IF chan = <<>>
          THEN /\ mb_pc' = "unreachable"
               /\ UNCHANGED <<chan, rxAlive, rxLog, cbLog, mb_tx, mb_ret>>
          ELSE /\ rxLog' = Append(rxLog, Head(chan))
               /\ cbLog' = Append(cbLog, [res |-> Head(chan), flow |-> flow])
               /\ mb_pc' = IF flow.brk THEN "returned" ELSE "loop"
               /\ mb_ret' = IF flow.brk THEN flow.val ELSE NoValue
               /\ rxAlive' = ~flow.brk
               /\ mb_tx' = ~flow.brk
               /\ chan' = IF flow.brk THEN <<>> ELSE Tail(chan)
    /\ UNCHANGED <<sockVars, bl_pc, bl_call, bl_ret, recvLog, asyncVars, dropAt,
                   mb_N, mb_readers, setupVars, codecVars>>

\* Reader thread r: subscribe_internal received a result from its socket
\* and calls `break_on_err(tx.send(msg).is_err())`; on Break the thread
\* ends and drops its Sender.
ReaderPush(r) ==
    /\ mb_readers[r].running
    /\ TotalPushes(mb_readers) < MaxPushes
    /\ \E m \in FanCatalog :
          LET msg == RecvInternal(m, EmptyBuf).res
              flow == SendFlow(SendOk(rxAlive))
          IN  /\ chan' = IF SendOk(rxAlive) THEN ChannelPush(chan, msg) ELSE chan
              /\ mb_readers' = [mb_readers EXCEPT ![r] =
                                    [running |-> ~flow.brk, pushes |-> @.pushes + 1]]
    /\ UNCHANGED <<sockVars, blockVars, asyncVars, rxAlive, rxLog, dropAt,
                   mb_pc, mb_N, mb_tx, mb_ret, setupVars, codecVars>>

ReaderPushes == \E r \in 1..Len(mb_readers) : ReaderPush(r)

InitFanIn ==
    SockInit /\ BlockInit /\ AsyncUnused /\ FanInit /\ SetupUnused /\ CodecUnused

NextFanIn == MbSpawn \/ MbSocketFails \/ MbLoopStart \/ MbNext \/ ReaderPushes

SpecFanIn == InitFanIn /\ [][NextFanIn]_vars

-----------------------------------------------------------------------------
(* The async streams: the data stream, the message+monitor stream and the  *)
(* checked stream returned by subscribe_async_wait_handshake               *)

\* Poll results.
Pending == [polled |-> TRUE, ready |-> FALSE]
ReadySome(item) == [polled |-> TRUE, ready |-> TRUE, some |-> TRUE, item |-> item]
ReadyNone == [polled |-> TRUE, ready |-> TRUE, some |-> FALSE]

\* subscribe_async_stream::MessageStream::poll_next on a ready item:
\* recv_internal over the frames of the multipart, or the receive error.
DataStreamItem(item, buf) ==
    IF item.recv_ok
    THEN LET r == RecvInternalIter(item.frames, buf)
         IN  [res |-> r.res, buf |-> r.buf]
    ELSE [res |-> Err(ZmqError), buf |-> buf]

\* subscribe_async_monitor_stream::MessageStream::poll_next on a ready
\* monitor item: Ok(SocketMessage::Event(..)) or the error.
MonitorStreamItem(item) ==
    IF item.recv_ok THEN MonitorMessage_parse_from(item.frames)
    ELSE Err(ZmqError)

\* The checked stream on SocketMessage::Event with a Disconnected event:
\* `self.inner = None` and the error item.
OnDisconnected_KeepsInner(source_url) ==
    [inner |-> "Some", looping |-> FALSE, res |-> ReadySome(Err(Disconnected(source_url)))]
OnDisconnected(source_url) ==
    [inner |-> "None", looping |-> FALSE, res |-> ReadySome(Err(Disconnected(source_url)))]

\* The checked stream on any other event: `_ => {}`, the loop goes on.
OnOtherEvent_Yields(event) ==
    [inner |-> "Some", looping |-> FALSE, res |-> ReadySome(Err(ZmqError))]
OnOtherEvent(event) ==
    [inner |-> "Some", looping |-> TRUE, res |-> Pending]

\* The checked stream on an Err item of the inner stream, `opt.unwrap()?`:
\* the item is returned and self.inner is left alone.
OnInnerErr_DropsInner(r) == [inner |-> "None", res |-> ReadySome(r)]
OnInnerErr(r) == [inner |-> "Some", res |-> ReadySome(r)]

\* The checked stream on SocketMessage::Event.
OnEvent(m) ==
    IF m.event.name = "Disconnected" THEN OnDisconnected(m.source_url)
    ELSE OnOtherEvent(m.event)

\* The loop of the checked stream's poll_next, with mr monitor items and dr
\* data items read so far and the scratch buffer buf: the monitor stream is
\* polled first, the data stream only when the monitor stream is Pending.
RECURSIVE CheckedPollLoop(_, _, _)
CheckedPollLoop(mr, dr, buf) ==
    IF mr < Len(monItems)
    THEN LET ev == MonitorStreamItem(monItems[mr + 1])
         IN  IF ~ev.ok
             THEN [mr |-> mr + 1, dr |-> dr, buf |-> buf,
                   inner |-> OnInnerErr(ev).inner, res |-> OnInnerErr(ev).res]
             ELSE LET o == OnEvent(ev.msg)
                  IN  IF o.looping
                      THEN CheckedPollLoop(mr + 1, dr, buf)
                      ELSE [mr |-> mr + 1, dr |-> dr, buf |-> buf,
                            inner |-> o.inner, res |-> o.res]
    ELSE IF dr < Len(dataItems)
    THEN LET d == DataStreamItem(dataItems[dr + 1], buf)
         IN  IF d.res.ok
             THEN [mr |-> mr, dr |-> dr + 1, buf |-> d.buf, inner |-> "Some",
                   res |-> ReadySome(d.res)]
             ELSE [mr |-> mr, dr |-> dr + 1, buf |-> d.buf,
                   inner |-> OnInnerErr(d.res).inner, res |-> OnInnerErr(d.res).res]
    ELSE [mr |-> mr, dr |-> dr, buf |-> buf, inner |-> "Some", res |-> Pending]

\* subscribe_async_wait_handshake_stream::MessageStream::poll_next
CheckedPoll ==
    IF inner = "Some" THEN CheckedPollLoop(monRead, dataRead, data_cache)
    ELSE [mr |-> monRead, dr |-> dataRead, buf |-> data_cache, inner |-> "None",
          res |-> ReadyNone]

\* What the sockets of the stream may receive.
StreamMonCatalog ==
    {MonDisconnectedA, MonDisconnectedB, MonConnected, MonUnknown, MonThreeFrames}
StreamDataCatalog ==
    {Received(MsgHashBlock), Received(MsgSequenceC), Received(MsgTwoFrames), RecvFailed}

\* A consumer polls the checked stream.
StreamPoll ==
    /\ LET p == CheckedPoll
       IN  /\ monRead' = p.mr
           /\ dataRead' = p.dr
           /\ data_cache' = p.buf
           /\ inner' = p.inner
           /\ lastPoll' = p.res
           /\ out' = IF p.res.ready /\ p.res.some THEN Append(out, p.res.item)
                     ELSE out
    /\ UNCHANGED <<monItems, dataItems, published, rx_msg, rx_frame, blockVars, subVars, codecVars,
                   hsVars, toVars>>

\* The monitor socket receives an event message (while the sockets exist).
StreamMonitorYields ==
    /\ inner = "Some"
    /\ Len(monItems) < MaxStreamEvents
    /\ \E item \in StreamMonCatalog : MonitorYields(item)
    /\ UNCHANGED <<monRead, streamVars, sockVars, blockVars, hsVars, toVars, subVars, codecVars>>

\* A publisher sends a multipart message to the subscription.
StreamPublish ==
    /\ Len(dataItems) < MaxStreamData
    /\ \E item \in StreamDataCatalog : dataItems' = Append(dataItems, item)
    /\ UNCHANGED <<dataRead, inner, out, lastPoll, monVars, sockVars, blockVars, subVars, codecVars,
                   hsVars, toVars>>

InitStream ==
    /\ StreamInit /\ MonInit /\ SockInit /\ BlockInit /\ HandshakeUnused /\ SubUnused
    /\ CodecUnused

NextStream == StreamPoll \/ StreamMonitorYields \/ StreamPublish

SpecStream == InitStream /\ [][NextStream]_vars

\* The plain call followed by the use of the stream it returns: data
\* messages arrive at the subscriber socket during and after the wait, and
\* the stream is polled once the wait resolved with it.
WaitCatalog == {MonHandshakeSucceeded, MonDisconnectedA}

WaitMonitorYields == HsMonitorYieldsOf(WaitCatalog)

ReturnedStreamPoll ==
    /\ hs_pc = "resolved"
    /\ StreamPoll

InitWaitThenStream ==
    /\ HandshakeInit /\ to_mode = "plain"
    /\ MonInit /\ SockInit /\ BlockInit /\ StreamInit /\ SubUnused /\ CodecUnused

NextWaitThenStream ==
    WaitStep \/ WaitMonitorYields \/ StreamPublish \/ ReturnedStreamPoll

SpecWaitThenStream == InitWaitThenStream /\ [][NextWaitThenStream]_vars

-----------------------------------------------------------------------------
(* Subscription creation: new_socket_internal as called by                 *)
(* subscribe_receiver, subscribe_async and subscribe_async_monitor         *)

\* `call?`: go on to `next` when the call succeeded, return the error
\* otherwise.
Try_GoesOn(ok, next) == [pc |-> next, res |-> NoResult]
Try(ok, next) ==
    IF ok THEN [pc |-> next, res |-> NoResult]
    ELSE [pc |-> "failed", res |-> Err(ZmqError)]

\* The first failed call, once there is one.
FirstFailure(ok, call) ==
    IF ok \/ su_fail # NoFailure THEN su_fail
    ELSE [failed |-> TRUE, call |-> call, connected |-> su_k]

\* The subscribe function is called with su_N endpoints; no thread runs.
SetupInit ==
    /\ su_api \in {"receiver", "async", "monitor"}
    /\ su_N \in 0..MaxEndpoints
    /\ su_pc = "socket"
    /\ su_k = 0
    /\ su_m = 0
    /\ su_result = NoResult
    /\ su_fail = NoFailure
    /\ bl_pc = "unspawned"
    /\ bl_call = NoCall
    /\ bl_ret = NoValue
    /\ recvLog = <<>>
    /\ cbLog = <<>>

\* One fallible call of the setup, succeeding or not.
SetupCall(ok, call, next) ==
    /\ su_pc' = Try(ok, next).pc
    /\ su_result' = Try(ok, next).res
    /\ su_fail' = FirstFailure(ok, call)

\* subscribe_receiver creates (tx, rx) before new_socket_internal: when a
\* call of new_socket_internal fails, `?` returns and drops both, so no
\* Receiver exists afterwards.  The other subscribe functions have no
\* channel.
ReceiverAfterSetupCall(ok) == rxAlive /\ (ok \/ su_api # "receiver")

\* let socket = context.socket(zmq::SUB)?;
SuSocket ==
    /\ su_pc = "socket"
    /\ \E ok \in BOOLEAN :
          /\ SetupCall(ok, "socket", "filter")
          /\ rxAlive' = ReceiverAfterSetupCall(ok)
    /\ UNCHANGED <<su_api, su_N, su_k, su_m, chan, rxLog, dropAt, fanVars, codecVars,
                   sockVars, blockVars, asyncVars>>

\* socket.set_subscribe(b"")?;
SuFilter ==
    /\ su_pc = "filter"
    /\ \E ok \in BOOLEAN :
          /\ SetupCall(ok, "filter", "connect")
          /\ rxAlive' = ReceiverAfterSetupCall(ok)
    /\ UNCHANGED <<su_api, su_N, su_k, su_m, chan, rxLog, dropAt, fanVars, codecVars,
                   sockVars, blockVars, asyncVars>>

\* for endpoint in endpoints { socket.connect(endpoint)?; }
SuConnect ==
    /\ su_pc = "connect"
    /\ su_k < su_N
    /\ \E ok \in BOOLEAN :
          /\ SetupCall(ok, "connect", "connect")
          /\ su_k' = IF ok THEN su_k + 1 ELSE su_k
          /\ rxAlive' = ReceiverAfterSetupCall(ok)
    /\ UNCHANGED <<su_api, su_N, su_m, chan, rxLog, dropAt, fanVars, codecVars,
                   sockVars, blockVars, asyncVars>>

\* Ok((context, socket)): back in the caller.
SuConnected ==
    /\ su_pc = "connect"
    /\ su_k = su_N
    /\ su_pc' = IF su_api = "monitor" THEN "monitor" ELSE "finish"
    /\ UNCHANGED <<su_api, su_N, su_k, su_m, su_result, su_fail, chanVars, codecVars, sockVars,
                   blockVars, asyncVars>>

\* subscribe_async_monitor: socket.monitor(..)?, context.socket(zmq::PAIR)?,
\* monitor.connect(..)?
SuMonitor ==
    /\ su_pc = "monitor"
    /\ \E ok \in BOOLEAN :
          /\ SetupCall(ok, "monitor", IF su_m = 2 THEN "finish" ELSE "monitor")
          /\ su_m' = IF ok THEN su_m + 1 ELSE su_m
    /\ UNCHANGED <<su_api, su_N, su_k, chanVars, codecVars, sockVars, blockVars, asyncVars>>

\* thread::spawn(..); Ok(rx)  /  Ok(MessageStream::new(..))
SuFinish ==
    /\ su_pc = "finish"
    /\ su_pc' = "done"
    /\ su_result' = Ok(IF su_api = "receiver" THEN "Receiver" ELSE "MessageStream")
    /\ bl_pc' = IF su_api = "receiver" THEN "recv" ELSE bl_pc
    /\ UNCHANGED <<su_api, su_N, su_k, su_m, su_fail, chanVars, codecVars, sockVars, asyncVars,
                   bl_call, bl_ret, recvLog, cbLog>>

\* A poll_next that polls the data stream first (mutation of
\* MessageStreamPoll).
MessageStreamPoll_DataFirst(with_monitor, mr, dr, buf) ==
    IF dr < Len(dataItems)
    THEN LET d == DataStreamItem(dataItems[dr + 1], buf)
         IN  [mr |-> mr, dr |-> dr + 1, buf |-> d.buf,
              res |-> ReadySome(IF d.res.ok /\ with_monitor
                                THEN Ok([message |-> d.res.msg]) ELSE d.res)]
    ELSE IF with_monitor /\ mr < Len(monItems)
    THEN LET ev == MonitorStreamItem(monItems[mr + 1])
         IN  [mr |-> mr + 1, dr |-> dr, buf |-> buf,
              res |-> ReadySome(IF ev.ok THEN Ok([event |-> ev.msg]) ELSE ev)]
    ELSE [mr |-> mr, dr |-> dr, buf |-> buf, res |-> Pending]

\* poll_next of the stream subscribe_async or subscribe_async_monitor
\* returned: the monitor socket first (subscribe_async_monitor only), then
\* the data stream.
MessageStreamPoll(with_monitor, mr, dr, buf) ==
    IF with_monitor /\ mr < Len(monItems)
    THEN LET ev == MonitorStreamItem(monItems[mr + 1])
         IN  [mr |-> mr + 1, dr |-> dr, buf |-> buf,
              res |-> ReadySome(IF ev.ok THEN Ok([event |-> ev.msg]) ELSE ev)]
    ELSE IF dr < Len(dataItems)
    THEN LET d == DataStreamItem(dataItems[dr + 1], buf)
         IN  [mr |-> mr, dr |-> dr + 1, buf |-> d.buf,
              res |-> ReadySome(IF d.res.ok /\ with_monitor
                                THEN Ok([message |-> d.res.msg]) ELSE d.res)]
    ELSE [mr |-> mr, dr |-> dr, buf |-> buf, res |-> Pending]

\* A consumer polls the stream the subscribe function returned.
SuStreamPoll ==
    /\ su_pc = "done"
    /\ su_api \in {"async", "monitor"}
    /\ LET p == MessageStreamPoll(su_api = "monitor", monRead, dataRead, data_cache)
       IN  /\ monRead' = p.mr
           /\ dataRead' = p.dr
           /\ data_cache' = p.buf
           /\ lastPoll' = p.res
           /\ out' = IF p.res.ready THEN Append(out, p.res.item) ELSE out
    /\ UNCHANGED <<monItems, dataItems, inner, published, rx_msg, rx_frame, blockVars,
                   hsVars, toVars, subVars, codecVars>>

\* The monitor socket receives an event message (once it exists).
SuMonitorYields ==
    /\ su_api = "monitor"
    /\ su_m >= 1
    /\ su_pc # "failed"
    /\ Len(monItems) < MaxStreamEvents
    /\ \E item \in StreamMonCatalog : MonitorYields(item)
    /\ UNCHANGED <<monRead, streamVars, sockVars, blockVars, hsVars, toVars, subVars, codecVars>>

\* What the publishers send while a subscription is being created and used.
SetupCatalog == {MsgHashBlock, MsgTwoFrames}

SuPublish ==
    /\ su_api = "receiver"
    /\ \E m \in SetupCatalog : Publish(m)
    /\ UNCHANGED <<rx_msg, rx_frame, data_cache, blockVars, asyncVars, subVars, codecVars>>

SuStreamPublish ==
    /\ su_api \in {"async", "monitor"}
    /\ Len(dataItems) < MaxStreamData
    /\ \E m \in SetupCatalog : dataItems' = Append(dataItems, Received(m))
    /\ UNCHANGED <<dataRead, inner, out, lastPoll, monVars, sockVars, blockVars,
                   hsVars, toVars, subVars, codecVars>>

\* The consumer uses the Receiver that subscribe_receiver returned.
SuReceiverRecv == su_pc = "done" /\ ReceiverRecv
SuReceiverDrop == su_pc = "done" /\ ReceiverDrop

InitSetup ==
    /\ CodecUnused
    /\ SetupInit
    /\ SockInit
    /\ MonInit
    /\ HandshakeUnused
    /\ StreamUnused
    /\ IF su_api = "receiver" THEN ChannelInit ELSE ChannelUnused

NextSetup ==
    \/ SuSocket
    \/ SuFilter
    \/ SuConnect
    \/ SuConnected
    \/ SuMonitor
    \/ SuFinish
    \/ SuStreamPoll
    \/ SuMonitorYields
    \/ SuPublish
    \/ SuStreamPublish
    \/ BlockingRecv
    \/ ChannelSend
    \/ SuReceiverRecv
    \/ SuReceiverDrop

SpecSetup == InitSetup /\ [][NextSetup]_vars

-----------------------------------------------------------------------------
(* The codec applied to one input.  cx_src is the input and cx_trace the   *)
(* values obtained from it, each by applying one codec function to the     *)
(* previous value.  A value is tagged with its type t: "multipart" (mp, a   *)
(* sequence of frames), "message" (res, the Result of                      *)
(* Message::from_multipart of message.rs, or Ok of a Message to encode),   *)
(* "message_mod" (res_mod, the same for message/mod.rs), "bytes" (bytes, a *)
(* frame) or "sequence_message" (res_sm, the Result of                     *)
(* SequenceMessage::from_byte_slice, or Ok of a value to encode),          *)
(* "monitor_frames" (mon, the frames of a message of the monitor socket)   *)
(* or "monitor_message" (res_mon, the Result of MonitorMessage::parse_from)*)

MultipartValue(mp) == [t |-> "multipart", mp |-> mp]
MonitorFramesValue(mp) == [t |-> "monitor_frames", mon |-> mp]
MonitorMessageValue(r) == [t |-> "monitor_message", res_mon |-> r]
MessageValue(r) == [t |-> "message", res |-> r]
MessageModValue(r) == [t |-> "message_mod", res_mod |-> r]
BytesValue(b) == [t |-> "bytes", bytes |-> b]
SequenceMessageValue(r) == [t |-> "sequence_message", res_sm |-> r]

\* The value the next codec call is applied to.
CodecCurrent == IF cx_trace = <<>> THEN cx_src ELSE cx_trace[Len(cx_trace)]

\* Topic frames: the five topics, "", "abc", "hashbloc", "hashblock!" and a
\* 26-byte string.
TopicAbc == <<97, 98, 99>>
TopicHashBlockBang == TopicHashBlock \o <<33>>
TopicHashBloc == SubSeq(TopicHashBlock, 1, 8)
TopicLong == TopicHashBlock \o TopicHashBlock \o TopicSequence

KnownTopics == {TopicHashBlock, TopicHashTx, TopicRawBlock, TopicRawTx, TopicSequence}

CodecTopics ==
    KnownTopics \cup {<<>>, TopicAbc, TopicHashBloc, TopicHashBlockBang, TopicLong}

\* A byte string of length n shaped like a sequence record: a first hash
\* byte, the label at offset 32 and one mempool sequence byte after it.
SeqBytes(label, n, ms) ==
    Frame(n, [i \in 1..Min(n, 34) |->
                 IF i = 1 THEN 7 ELSE IF i = 33 THEN label
                 ELSE IF i = 34 THEN ms ELSE 0])

FullHash == [i \in 1..32 |-> i]

CodecLabels == {LabelC, LabelD, LabelA, LabelR, 0, 88, 99}

CodecByteStrings ==
    { SeqBytes(label, n, ms) :
        label \in CodecLabels, n \in {0, 1, 32, 33, 34, 40, 41, 42, 50}, ms \in {0, 5} }

CodecDataFrames ==
    { Bytes(<<>>), Frame(20, <<>>), Hash32(1, 2), Bytes(FullHash), Frame(31, <<4>>),
      Frame(5, <<1, 5>>), Frame(5, <<2>>), Frame(32, <<1>>),
      SeqBytes(LabelC, 33, 0), SeqBytes(LabelD, 33, 0), SeqBytes(LabelA, 41, 5),
      SeqBytes(LabelR, 41, 5), SeqBytes(LabelC, 41, 0), SeqBytes(LabelA, 33, 0),
      SeqBytes(88, 33, 0), SeqBytes(88, 41, 0) }

CodecSequenceFrames ==
    { Seq4(7), Bytes(<<1, 2, 3, 4>>), Bytes(<<>>), Frame(3, <<1>>), Frame(5, <<1>>),
      Bytes(<<110, 111, 116, 32, 52, 32, 98, 121, 116, 101, 115>>) }

ThreeFrames ==
    { <<Bytes(t), d, q>> : t \in CodecTopics, d \in CodecDataFrames, q \in CodecSequenceFrames }

\* Multiparts of another length: prefixes of, and extensions of, a few
\* three-frame ones.
ShortCatalog ==
    { <<Bytes(t), d, q>> :
        t \in {TopicHashTx, TopicSequence, TopicAbc},
        d \in {Hash32(1, 2), Bytes(<<>>)},
        q \in {Seq4(7), Frame(5, <<1>>)} }

RECURSIVE Garbage(_)
Garbage(n) == IF n = 0 THEN <<>> ELSE <<Bytes(<<103>>)>> \o Garbage(n - 1)

OtherCounts ==
    { SubSeq(mp, 1, k) : mp \in ShortCatalog, k \in 0..2 }
      \cup { mp \o Garbage(k) : mp \in ShortCatalog, k \in 1..MaxExtraFrames }

CodecMultiparts == ThreeFrames \cup OtherCounts

\* Values to encode.
CodecHashes == {FullHash, [i \in 1..32 |-> IF i = 1 THEN 1 ELSE IF i = 2 THEN 2 ELSE 0]}
CodecSequenceNumbers == {0, 7, 67305985}

CodecSequenceMessages ==
    { [variant |-> v, blockhash |-> h] :
        v \in {"BlockConnect", "BlockDisconnect"}, h \in CodecHashes }
      \cup { [variant |-> v, txid |-> h, mempool_sequence |-> n] :
               v \in {"MempoolAcceptance", "MempoolRemoval"}, h \in CodecHashes,
               n \in {0, 261} }

\* message.rs: enum Message
CodecMessages ==
    { [kind |-> k, hash |-> h, sequence |-> n] :
        k \in {"HashBlock", "HashTx"}, h \in CodecHashes, n \in CodecSequenceNumbers }
      \cup { [kind |-> k, raw |-> Frame(5, <<1, 5>>), sequence |-> n] :
               k \in {"Block", "Tx"}, n \in CodecSequenceNumbers }
      \cup { [kind |-> "Sequence", sm |-> sm, sequence |-> n] :
               sm \in CodecSequenceMessages, n \in CodecSequenceNumbers }

\* message/mod.rs: struct Message { content, sequence }
CodecContents ==
    { [kind |-> k, hash |-> h] : k \in {"BlockHash", "Txid"}, h \in CodecHashes }
      \cup { [kind |-> k, raw |-> Frame(5, <<1, 5>>)] : k \in {"Block", "Tx"} }
      \cup { [kind |-> "Sequence", sm |-> sm] : sm \in CodecSequenceMessages }

CodecModMessages ==
    { [content |-> c, sequence |-> n] : c \in CodecContents, n \in CodecSequenceNumbers }

\* Monitor messages: event frames of every code of the table and of four
\* other codes, with data words that are and are not HandshakeFailure
\* values, event frames of other lengths, and zero to three frames.
MonitorCodes ==
    {SocketEventTable[i].code : i \in 1..Len(SocketEventTable)} \cup {0, 3, 32768, 65535}

MonitorDataWords == {0, 11, 70000, 7, 268435456, 268435460, 536870917, 536870918}

MonitorEventFrames ==
    {EventFrame(c, w) : c \in MonitorCodes, w \in MonitorDataWords}
      \cup {Bytes(<<>>), Bytes(<<0, 16, 0, 0, 0>>), Bytes(<<0, 16, 0, 0, 0, 0, 0>>),
            Frame(8, <<0, 32>>)}

\* "tcp:a", "tcp:b" and 0xFF, "", "tcp://caf\u00e9:1" (a two-byte
\* character) and "tcp:" followed by the first two bytes of a three-byte one
UrlCafe == Bytes(<<116, 99, 112, 58, 47, 47, 99, 97, 102, 195, 169, 58, 49>>)
UrlCut == Bytes(<<116, 99, 112, 58, 226, 130>>)

MonitorUrlFrames == {UrlA, UrlB, Bytes(<<>>), UrlCafe, UrlCut}

MonitorMultiparts ==
    {<<e, u>> : e \in MonitorEventFrames, u \in MonitorUrlFrames}
      \cup {<<>>, <<EventFrame(4096, 0)>>, <<Bytes(<<>>)>>,
            <<EventFrame(4096, 0), UrlA, UrlB>>, <<Bytes(<<>>), UrlA, UrlA>>}

CodecInit ==
    /\ cx_trace = <<>>
    /\ \/ \E mp \in CodecMultiparts : cx_src = MultipartValue(mp)
       \/ \E m \in CodecMessages : cx_src = MessageValue(Ok(m))
       \/ \E m \in CodecModMessages : cx_src = MessageModValue(Ok(m))
       \/ \E b \in CodecByteStrings : cx_src = BytesValue(b)
       \/ \E sm \in CodecSequenceMessages : cx_src = SequenceMessageValue(Ok(sm))
       \/ \E mp \in MonitorMultiparts : cx_src = MonitorFramesValue(mp)

\* Message::from_multipart of message.rs on the current multipart
DecodeMessage ==
    /\ Len(cx_trace) < MaxCodecSteps
    /\ CodecCurrent.t = "multipart"
    /\ cx_trace' = Append(cx_trace,
           MessageValue(Message_from_multipart(CodecCurrent.mp)))
    /\ UNCHANGED <<cx_src, sockVars, blockVars, asyncVars, subVars>>

\* Message::from_multipart of message/mod.rs on the current multipart
DecodeMessageMod ==
    /\ Len(cx_trace) < MaxCodecSteps
    /\ CodecCurrent.t = "multipart"
    /\ cx_trace' = Append(cx_trace,
           MessageModValue(MessageMod_from_multipart(CodecCurrent.mp)))
    /\ UNCHANGED <<cx_src, sockVars, blockVars, asyncVars, subVars>>

\* Message::serialize_to_vecs of message.rs on the current Message
EncodeMessage ==
    /\ Len(cx_trace) < MaxCodecSteps
    /\ CodecCurrent.t = "message"
    /\ CodecCurrent.res.ok
    /\ cx_trace' = Append(cx_trace,
           MultipartValue(Message_serialize_to_vecs(CodecCurrent.res.msg)))
    /\ UNCHANGED <<cx_src, sockVars, blockVars, asyncVars, subVars>>

\* Message::serialize_to_vecs of message/mod.rs on the current Message
EncodeMessageMod ==
    /\ Len(cx_trace) < MaxCodecSteps
    /\ CodecCurrent.t = "message_mod"
    /\ CodecCurrent.res_mod.ok
    /\ cx_trace' = Append(cx_trace,
           MultipartValue(MessageMod_serialize_to_vecs(CodecCurrent.res_mod.msg)))
    /\ UNCHANGED <<cx_src, sockVars, blockVars, asyncVars, subVars>>

\* SequenceMessage::from_byte_slice on the current bytes
DecodeSequenceMessage ==
    /\ Len(cx_trace) < MaxCodecSteps
    /\ CodecCurrent.t = "bytes"
    /\ cx_trace' = Append(cx_trace,
           SequenceMessageValue(SequenceMessage_from_byte_slice(CodecCurrent.bytes)))
    /\ UNCHANGED <<cx_src, sockVars, blockVars, asyncVars, subVars>>

\* SequenceMessage::as_bytes, raw_length and mempool_sequence on the
\* current SequenceMessage
EncodeSequenceMessage ==
    /\ Len(cx_trace) < MaxCodecSteps
    /\ CodecCurrent.t = "sequence_message"
    /\ CodecCurrent.res_sm.ok
    /\ cx_trace' = Append(cx_trace,
           [t |-> "bytes",
            bytes |-> Bytes(SequenceMessage_as_bytes(CodecCurrent.res_sm.msg)),
            raw_length |-> SequenceMessage_raw_length(CodecCurrent.res_sm.msg),
            mempool_sequence |->
                SequenceMessage_mempool_sequence(CodecCurrent.res_sm.msg)])
    /\ UNCHANGED <<cx_src, sockVars, blockVars, asyncVars, subVars>>

\* MonitorMessage::parse_from on the current monitor frames
ParseMonitorMessage ==
    /\ Len(cx_trace) < MaxCodecSteps
    /\ CodecCurrent.t = "monitor_frames"
    /\ cx_trace' = Append(cx_trace,
           MonitorMessageValue(MonitorMessage_parse_from(CodecCurrent.mon)))
    /\ UNCHANGED <<cx_src, sockVars, blockVars, asyncVars, subVars>>

InitCodec ==
    /\ CodecInit
    /\ SockInit
    /\ bl_pc = "unspawned" /\ bl_call = NoCall /\ bl_ret = NoValue
    /\ recvLog = <<>> /\ cbLog = <<>>
    /\ AsyncUnused
    /\ SubUnused

NextCodec ==
    \/ DecodeMessage
    \/ DecodeMessageMod
    \/ EncodeMessage
    \/ EncodeMessageMod
    \/ DecodeSequenceMessage
    \/ EncodeSequenceMessage
    \/ ParseMonitorMessage

SpecCodec == InitCodec /\ [][NextCodec]_vars

-----------------------------------------------------------------------------
(* Claims about the framing loop and the blocking delivery model           *)

Last(s) == s[Len(s)]
Front(s) == SubSeq(s, 1, Len(s) - 1)

\* C8: one malformed multipart message never desynchronizes the socket
\* reader: whenever recv_internal has returned, no frame of the multipart
\* message it was reading is left unread, so every call starts at the first
\* frame of a message.
C8_ReaderNeverDesynchronized == rx_frame = 0

\* Every frame arrives, and the first three frames, as far as present, pass
\* recv_internal's length checks.
PassesLengthChecks(frames) ==
    /\ NoZmqFailure(frames)
    /\ frames[1].len <= TOPIC_MAX_LEN
    /\ Len(frames) >= 2 => frames[2].len <= DATA_MAX_LEN
    /\ Len(frames) >= 3 => frames[3].len = SEQUENCE_LEN

\* C9: for a message of n frames whose first three frames pass the length
\* checks, recv_internal yields InvalidMutlipartLength(1) for n = 1,
\* InvalidMutlipartLength(2) for n = 2, receives every frame and yields
\* InvalidMutlipartLength(n) for n >= 4, and hands the three frames to the
\* Message codec only for n = 3.
C9_FrameCountReported ==
    (bl_pc = "callback" /\ bl_call.start = 0 /\ PassesLengthChecks(bl_call.frames))
    => LET n == Len(bl_call.frames)
           f == bl_call.frames
       IN  /\ bl_call.used = n
           /\ n = 1 => bl_call.res = Err(InvalidMutlipartLength(1))
           /\ n = 2 => bl_call.res = Err(InvalidMutlipartLength(2))
           /\ n >= 4 => bl_call.res = Err(InvalidMutlipartLength(n))
           /\ n = 3 => bl_call.res =
                  Message_from_parts(FrameBytes(f[1]), f[2], FrameBytes(f[3]))

C9_Witness ==
    /\ bl_pc = "callback"
    /\ bl_call.start = 0
    /\ PassesLengthChecks(bl_call.frames)
    /\ Len(bl_call.frames) = 5
    /\ bl_call.res = Err(InvalidMutlipartLength(5))
    /\ rx_frame = 0

\* C10: the blocking loop passes every result of recv_internal, Message or
\* Error, to the callback in order; it has returned exactly when the last
\* callback call answered Break(v), and then returns that v; after a
\* Continue (also one that answered an Error) it goes on receiving.
C10_BlockingLoopContract ==
    /\ [i \in 1..Len(cbLog) |-> cbLog[i].res]
           = (IF bl_pc = "callback" THEN Front(recvLog) ELSE recvLog)
    /\ \A i \in 1..(Len(cbLog) - 1) : ~cbLog[i].flow.brk
    /\ bl_pc = "returned" <=> (cbLog # <<>> /\ Last(cbLog).flow.brk)
    /\ bl_pc = "returned" => bl_ret = Last(cbLog).flow.val
    /\ bl_pc # "returned" => bl_ret = NoValue

C10_Witness ==
    /\ bl_pc = "returned"
    /\ bl_ret = "b2"
    /\ Len(cbLog) = 3
    /\ ~cbLog[1].res.ok
    /\ cbLog[2].res.ok

-----------------------------------------------------------------------------
(* Claims about the handshake wait and its timeout                         *)

\* The monitor items the handshake wait has consumed.
Consumed == SubSeq(monItems, 1, monRead)

RECURSIVE CountName(_, _)
CountName(items, name) ==
    IF items = <<>> THEN 0
    ELSE CountName(Front(items), name)
         + (IF IsWellFormed(Last(items)) /\ EventName(Last(items)) = name
            THEN 1 ELSE 0)

\* HandshakeSucceeded events minus Disconnected events among the items.
NetHandshakes(items) ==
    CountName(items, "HandshakeSucceeded") - CountName(items, "Disconnected")

AllWellFormed(items) == \A i \in 1..Len(items) : IsWellFormed(items[i])

HsPastSetup == hs_pc \in {"created", "loop", "parked", "resolved", "error"}

\* C1: with N > 0 endpoints the counter is N minus the HandshakeSucceeded
\* events consumed plus the Disconnected events consumed (other events do
\* not change it); the wait is resolved with the stream exactly when the net
\* count of consumed handshakes is N, which no shorter prefix of the consumed
\* events reaches, and it is not resolved while the net count is below N.
C1_HandshakeCounter ==
    (hs_N > 0 /\ HsPastSetup) =>
        /\ connecting = hs_N - NetHandshakes(Consumed)
        /\ NetHandshakes(Consumed) <= hs_N
        /\ (hs_pc = "resolved") <=> (NetHandshakes(Consumed) = hs_N)
        /\ hs_pc = "resolved" =>
              /\ hs_res = TheStream
              /\ \A k \in 0..(monRead - 1) :
                    NetHandshakes(SubSeq(monItems, 1, k)) < hs_N

C1_Witness ==
    /\ hs_N = 1
    /\ hs_pc = "resolved"
    /\ monRead = 3
    /\ CountName(Consumed, "Disconnected") = 1
    /\ CountName(Consumed, "HandshakeSucceeded") = 2
    /\ EventName(monItems[3]) = "HandshakeSucceeded"

\* C2: with N = 0 endpoints the wait resolves with the stream in its first
\* poll, once the sockets are set up, and never reads the monitor channel:
\* nothing is consumed from it, whatever it holds.
C2_ZeroEndpointsReadNothing ==
    hs_N = 0 =>
        /\ monRead = 0
        /\ hs_pc \in {"init", "created", "resolved", "setup_error"}
        /\ to_pc \in {"pollA", "returned"}
        /\ hs_pc = "resolved" => hs_res = TheStream
        /\ (to_pc = "returned" /\ hs_pc # "setup_error") =>
              /\ hs_pc = "resolved"
              /\ to_result = CallResult(TheStream)

C2_Witness ==
    /\ hs_N = 0
    /\ hs_pc = "resolved"
    /\ hs_res = TheStream
    /\ Len(monItems) = 2
    /\ monRead = 0

\* C3: with N > 0 endpoints, as long as every monitor message read was
\* well-formed and the net count of handshakes is below N, the wait is
\* pending: it has completed neither with the stream nor with an error,
\* however many events it consumed.
C3_NoInternalTimeout ==
    (hs_N > 0 /\ HsPastSetup /\ AllWellFormed(Consumed)
       /\ NetHandshakes(Consumed) < hs_N) =>
        /\ hs_pc \in {"created", "loop", "parked"}
        /\ hs_res = NoResult
        /\ to_result \in {NoResult, TimedOut}

C3_Witness ==
    /\ hs_N = 2
    /\ to_mode = "plain"
    /\ monRead = 3
    /\ AllWellFormed(Consumed)
    /\ CountName(Consumed, "HandshakeSucceeded") = 2
    /\ CountName(Consumed, "Disconnected") = 1
    /\ hs_pc = "parked"
    /\ hs_res = NoResult

\* C4 as stated: once the timer has fired (its thread stored Done) while the
\* handshake wait is still pending, the call can only return Err(Timeout).
C4_TimerFiredFirstGivesTimeout ==
    [][(to_mode = "timeout" /\ sleepState = "Done" /\ to_result = NoResult
          /\ hs_pc = "parked")
       => to_result' \in {NoResult, TimedOut}]_vars

\* C4: the call with a timeout returns Ok(r), r the result of the handshake
\* wait, whenever a poll finds the handshake wait complete, whether or not
\* the timer has fired by then; it returns Err(Timeout) only from a poll that
\* found the handshake wait pending and the timer state Done, hence never
\* before the timer thread has finished sleeping; and when it returns while
\* the net count of handshakes is below N, all monitor messages read being
\* well-formed, it returns Err(Timeout).
C4_TimeoutRace ==
    to_mode = "timeout" =>
        /\ (to_pc = "returned") <=> (to_result # NoResult)
        /\ (hs_res # NoResult) <=> (to_result = Completed(hs_res))
        /\ to_result # TimedOut =>
              (hs_res # NoResult <=> hs_pc \in {"resolved", "error", "setup_error"})
        /\ to_result = TimedOut =>
              /\ sleepState = "Done"
              /\ timer_pc \in {"stored", "exited"}
              /\ hs_pc = "parked"
              /\ hs_res = NoResult
        /\ (to_pc = "returned" /\ hs_N > 0 /\ HsPastSetup /\ AllWellFormed(Consumed)
              /\ NetHandshakes(Consumed) < hs_N) => to_result = TimedOut

C4_Witness ==
    /\ to_mode = "timeout"
    /\ hs_N = 2
    /\ NetHandshakes(Consumed) = 1
    /\ monRead = 3
    /\ wakes = 1
    /\ to_result = TimedOut

\* C5: under fair scheduling of the timer thread and of the task, every call
\* with a timeout eventually returns.
C5_CallEventuallyReturns == <>(to_pc = "returned" /\ to_result # NoResult)

C5_Witness ==
    /\ to_mode = "timeout"
    /\ hs_N = 1
    /\ monRead = 0
    /\ timer_old = "PendingPolled"
    /\ timer_pc = "exited"
    /\ wakes = 1
    /\ to_pc = "returned"
    /\ to_result = TimedOut

-----------------------------------------------------------------------------
(* Claims about the checked stream                                         *)

IsDisconnectedItem(item) == IsWellFormed(item) /\ EventName(item) = "Disconnected"
IsDisconnectedError(r) == ~r.ok /\ r.err.kind = "Disconnected"
IsOk(r) == r.ok

\* The monitor items read so far that are Disconnected events / that are
\* not well-formed messages.
DisconnectedRead == {i \in 1..monRead : IsDisconnectedItem(monItems[i])}
MalformedRead == {i \in 1..monRead : ~IsWellFormed(monItems[i])}

\* C6 (state part): the stream is terminated exactly when it has read a
\* Disconnected event, which then is the last monitor item it read and the
\* only Disconnected it read; the last item it yielded is the only
\* Err(Disconnected(..)) it yielded and carries that event's source URL, and
\* the latest poll returned that item or Ready(None).
C6_TerminatedState ==
    /\ (inner = "None") <=> (DisconnectedRead # {})
    /\ inner = "Some" =>
          /\ lastPoll # ReadyNone
          /\ \A i \in 1..Len(out) : ~IsDisconnectedError(out[i])
    /\ inner = "None" =>
          /\ DisconnectedRead = {monRead}
          /\ out # <<>>
          /\ Last(out) =
                Err(Disconnected(FromUtf8Lossy(monItems[monRead].frames[2])))
          /\ \A i \in 1..(Len(out) - 1) : ~IsDisconnectedError(out[i])
          /\ lastPoll \in {ReadySome(Last(out)), ReadyNone}

\* C6 (step part): once terminated, the stream stays terminated, reads and
\* yields nothing more, and a poll returns Ready(None).
C6_TerminatedStep ==
    inner = "None" =>
        /\ inner' = "None"
        /\ out' = out
        /\ monRead' = monRead
        /\ dataRead' = dataRead
        /\ lastPoll' \in {lastPoll, ReadyNone}

\* C6: the checked stream terminates permanently on the first Disconnected
\* event it reads, yielding one Err(Disconnected(source_url)) for it and
\* Ready(None) ever after.
C6_TerminatesOnDisconnected == []C6_TerminatedState /\ [][C6_TerminatedStep]_vars

C6_Witness ==
    /\ inner = "None"
    /\ lastPoll = ReadyNone
    /\ monItems[monRead] = MonDisconnectedB
    /\ Last(out) = Err(Disconnected(<<116, 99, 112, 58, 98, 65533>>))
    /\ Len(out) = 2
    /\ dataRead < Len(dataItems)

\* The items the data stream yields for the given ready items.
RECURSIVE DataResults(_, _)
DataResults(items, buf) ==
    IF items = <<>> THEN <<>>
    ELSE LET d == DataStreamItem(Head(items), buf)
         IN  <<d.res>> \o DataResults(Tail(items), d.buf)

\* C7 (state part): the Ok items the checked stream yielded are the Messages
\* of the data items read, in their order; it yielded one item per data item
\* read, per malformed monitor message read and per Disconnected read, hence
\* none for any other monitor event.
C7_ForwardsState ==
    /\ SelectSeq(out, IsOk)
         = SelectSeq(DataResults(SubSeq(dataItems, 1, dataRead), EmptyBuf), IsOk)
    /\ Len(out) = dataRead + Cardinality(MalformedRead) + Cardinality(DisconnectedRead)

\* C7 (step part): a poll that read monitor events without yielding an item
\* went on until both inner streams were Pending.
C7_SilentStep ==
    (monRead' > monRead /\ out' = out) =>
        /\ lastPoll' = Pending
        /\ monRead' = Len(monItems)
        /\ dataRead' = Len(dataItems)

\* C7: before it terminates the checked stream yields exactly the Messages of
\* the data stream, in order, and no item for a monitor event other than
\* Disconnected: such an event is read silently and the poll goes on.
C7_ForwardsMessages == []C7_ForwardsState /\ [][C7_SilentStep]_vars

C7_Witness ==
    /\ inner = "Some"
    /\ monRead = 2
    /\ AllWellFormed(Consumed)
    /\ EventName(monItems[1]) = "Connected"
    /\ EventName(monItems[2]) = "Unknown"
    /\ dataItems = <<Received(MsgHashBlock), Received(MsgSequenceC)>>
    /\ Len(out) = 2
    /\ out[1].ok /\ out[1].msg.kind = "HashBlock"
    /\ out[2].ok /\ out[2].msg.kind = "Sequence"

-----------------------------------------------------------------------------
(* Claims about the channel delivery model                                 *)

\* The results the callback was called with, in order.
CallbackResults == [i \in 1..Len(cbLog) |-> cbLog[i].res]

\* C11: the background thread of subscribe_receiver has left its loop only
\* after a push failed because the Receiver was dropped, never while the
\* Receiver is alive, whatever it received; after the drop it completes at
\* most one further recv_internal call, and its first push after the drop
\* ends the loop.
C11_ThreadExitsOnFailedPush ==
    /\ rxAlive => (bl_pc # "returned" /\ \A i \in 1..Len(cbLog) : ~cbLog[i].flow.brk)
    /\ bl_pc = "returned" =>
          /\ ~rxAlive
          /\ Last(cbLog).flow.brk
          /\ \A i \in 1..(Len(cbLog) - 1) : ~cbLog[i].flow.brk
          /\ Len(cbLog) = Len(recvLog)
    /\ ~rxAlive =>
          /\ dropAt <= Len(recvLog)
          /\ Len(recvLog) <= dropAt + 1
          /\ bl_pc = "recv" => Len(recvLog) = dropAt
          /\ Len(cbLog) > dropAt => bl_pc = "returned"

C11_Witness ==
    /\ bl_pc = "returned"
    /\ dropAt = 2
    /\ Len(recvLog) = 3
    /\ Len(rxLog) = 2
    /\ ~rxLog[1].ok
    /\ rxLog[2].ok

\* C12: the callback sees the results of the successive recv_internal calls
\* in order, and so does the consumer of the Receiver: what it has read
\* followed by what is queued is the sequence of results pushed, without
\* reordering, duplication or loss, until the Receiver is dropped.
C12_FifoDelivery ==
    /\ CallbackResults = (IF bl_pc = "callback" THEN Front(recvLog) ELSE recvLog)
    /\ rxAlive => rxLog \o chan = CallbackResults
    /\ rxLog = SubSeq(recvLog, 1, Len(rxLog))
    /\ ~rxAlive => (chan = <<>> /\ Len(rxLog) <= dropAt)

C12_Witness ==
    /\ rxAlive
    /\ Len(rxLog) = 1
    /\ Len(chan) = 2
    /\ rxLog[1].ok
    /\ ~chan[1].ok
    /\ chan[2].ok
    /\ chan[2] # rxLog[1]

-----------------------------------------------------------------------------
(* Claims about subscription creation                                      *)

\* Nothing was received from the sockets and no thread runs.
NothingReceived ==
    /\ bl_pc = "unspawned"
    /\ rx_msg = 0 /\ rx_frame = 0
    /\ recvLog = <<>> /\ cbLog = <<>>
    /\ dataRead = 0 /\ monRead = 0
    /\ out = <<>> /\ rxLog = <<>> /\ chan = <<>>

\* C13: when socket creation, setting the subscription filter or a connect
\* call fails during the creation of a subscription, the error is returned
\* at once: no further endpoint is connected, no thread is spawned and no
\* frame is received, before or after; nothing is received before the
\* creation has succeeded either.
C13_SetupFailureIsFatal ==
    /\ (su_fail # NoFailure) <=> (su_pc = "failed")
    /\ (su_pc = "failed") <=> (su_result = Err(ZmqError))
    /\ su_pc = "failed" =>
          /\ su_k = su_fail.connected
          /\ su_fail.call = "connect" => su_k < su_N
          /\ su_fail.call \in {"socket", "filter"} => su_k = 0
          /\ NothingReceived
    /\ su_pc # "done" => NothingReceived
    /\ su_pc = "done" => (su_k = su_N /\ su_result.ok)

C13_Witness ==
    /\ su_api = "receiver"
    /\ su_N = 2
    /\ su_pc = "failed"
    /\ su_fail.call = "connect"
    /\ su_k = 1
    /\ Len(published) = 2

-----------------------------------------------------------------------------
(* Claims about the thread-based timer                                     *)

\* C14: the timer thread calls wake at most once, and only when it ends; if
\* Sleep::poll returned Pending before the thread stored Done, so that a
\* waker was captured, it has called wake exactly once when it has ended
\* (and not at all otherwise), however often the future was polled.
C14_TimerWakesOnce ==
    /\ wakes \in {0, 1}
    /\ timer_pc # "exited" => wakes = 0
    /\ timer_pc \in {"stored", "exited"} => sleepState = "Done"
    /\ timer_pc = "exited" => (wakes = 1 <=> timer_old = "PendingPolled")
    /\ (to_mode = "timeout" /\ to_pc = "parked" /\ timer_pc \in {"stored", "exited"})
          => timer_old = "PendingPolled"
    /\ (to_mode = "timeout" /\ to_pc = "parked" /\ timer_pc = "exited") => wakes = 1

C14_Witness ==
    /\ to_mode = "timeout"
    /\ timer_pc = "exited"
    /\ timer_old = "PendingPolled"
    /\ wakes = 1
    /\ monRead = 2
    /\ to_pc = "parked"
    /\ woken

-----------------------------------------------------------------------------
(* Claims about the message codec                                          *)

\* The input followed by the values obtained from it.
Chain == <<cx_src>> \o cx_trace

IsDecodedOk(x) ==
    \/ x.t = "message" /\ x.res.ok
    \/ x.t = "message_mod" /\ x.res_mod.ok

\* The variant, payload and sequence number of a decoded Message of either
\* file.
MessageOf(x) == IF x.t = "message" THEN x.res.msg ELSE x.res_mod.msg
PayloadOf(x) == IF x.t = "message" THEN x.res.msg ELSE x.res_mod.msg.content

WireTopicOf(kind) ==
    CASE kind \in {"HashBlock", "BlockHash"} -> TopicHashBlock
      [] kind \in {"HashTx", "Txid"} -> TopicHashTx
      [] kind = "Block" -> TopicRawBlock
      [] kind = "Tx" -> TopicRawTx
      [] kind = "Sequence" -> TopicSequence

\* C15: encoding a Message gives exactly three frames, the topic of its
\* variant, the data (a hash in reverse byte order) and the sequence number
\* as four little-endian bytes; decoding them gives back Ok of the same
\* Message; and encoding the Message decoded from a three-frame input gives
\* back the input's three byte strings.
C15_MessageRoundTrip ==
    \A i \in 1..(Len(Chain) - 1) :
        LET a == Chain[i]
            b == Chain[i + 1]
        IN  /\ IsDecodedOk(a) =>
                 /\ b.t = "multipart"
                 /\ Len(b.mp) = 3
                 /\ b.mp[1] = Bytes(WireTopicOf(PayloadOf(a).kind))
                 /\ b.mp[3].len = 4
                 /\ FromLeBytes(FrameBytes(b.mp[3])) = MessageOf(a).sequence
                 /\ PayloadOf(a).kind \in {"HashBlock", "HashTx", "BlockHash", "Txid"} =>
                        /\ b.mp[2].len = 32
                        /\ \A k \in 1..32 :
                              FrameByte(b.mp[2], k) = PayloadOf(a).hash[33 - k]
                 /\ (i + 2 <= Len(Chain) /\ Chain[i + 2].t = a.t) => Chain[i + 2] = a
            /\ (a.t = "multipart" /\ IsDecodedOk(b) /\ i + 2 <= Len(Chain)) =>
                 Chain[i + 2] = a

C15_Witness ==
    /\ cx_src = MessageModValue(Ok([content |-> [kind |-> "Txid", hash |-> FullHash],
                                    sequence |-> 67305985]))
    /\ Len(cx_trace) = 3
    /\ cx_trace[1].mp = <<Bytes(TopicHashTx), Bytes(Reverse(FullHash)), Bytes(<<1, 2, 3, 4>>)>>
    /\ cx_trace[2] = cx_src
    /\ cx_trace[3] = cx_trace[1]

\* C16: encoding a SequenceMessage gives raw_length() bytes, 33 for
\* BlockConnect and BlockDisconnect and 41 for MempoolAcceptance and
\* MempoolRemoval; mempool_sequence() is Some (of the stored number) exactly
\* for the two mempool variants; and decoding the bytes gives back Ok of
\* the same SequenceMessage.
C16_SequenceMessageRoundTrip ==
    \A i \in 1..(Len(Chain) - 1) :
        LET a == Chain[i]
            b == Chain[i + 1]
        IN  (a.t = "sequence_message" /\ a.res_sm.ok) =>
               LET sm == a.res_sm.msg
                   mempool == sm.variant \in {"MempoolAcceptance", "MempoolRemoval"}
               IN  /\ sm.variant \in {"BlockConnect", "BlockDisconnect",
                                      "MempoolAcceptance", "MempoolRemoval"}
                   /\ b.raw_length = IF mempool THEN 41 ELSE 33
                   /\ b.bytes.len = b.raw_length
                   /\ b.mempool_sequence.some <=> mempool
                   /\ mempool => b.mempool_sequence.val = sm.mempool_sequence
                   /\ i + 2 <= Len(Chain) => Chain[i + 2] = a

C16_Witness ==
    /\ cx_src = SequenceMessageValue(Ok([variant |-> "MempoolRemoval", txid |-> FullHash,
                                         mempool_sequence |-> 261]))
    /\ Len(cx_trace) = 2
    /\ cx_trace[1].bytes.len = 41
    /\ cx_trace[1].mempool_sequence = Some(261)
    /\ cx_trace[2] = cx_src

\* C17: SequenceMessage::from_byte_slice gives InvalidSequenceMessageLength
\* of the length for fewer than 33 bytes; otherwise the byte at offset 32 is
\* the label: 'C' or 'D' with 33 bytes and 'A' or 'R' with 41 bytes are
\* accepted, a known label with another length gives
\* InvalidSequenceMessageLength of the length, and any other label gives
\* InvalidSequenceMessageLabel of the label, whatever the length.
C17_SequenceDecodeClassifies ==
    \A i \in 1..(Len(Chain) - 1) :
        LET a == Chain[i]
            r == Chain[i + 1].res_sm
            n == a.bytes.len
            label == FrameByte(a.bytes, 33)
            accepted == \/ label \in {67, 68} /\ n = 33
                        \/ label \in {65, 82} /\ n = 41
        IN  a.t = "bytes" =>
              /\ n < 33 => r = Err(InvalidSequenceMessageLength(n))
              /\ n >= 33 =>
                   /\ r.ok <=> accepted
                   /\ (label \in {67, 68, 65, 82} /\ ~accepted) =>
                          r = Err(InvalidSequenceMessageLength(n))
                   /\ label \notin {67, 68, 65, 82} =>
                          r = Err(InvalidSequenceMessageLabel(label))
                   /\ r.ok => r.msg.variant =
                          CASE label = 67 -> "BlockConnect"
                            [] label = 68 -> "BlockDisconnect"
                            [] label = 65 -> "MempoolAcceptance"
                            [] label = 82 -> "MempoolRemoval"

C17_Witness ==
    /\ cx_src = BytesValue(SeqBytes(88, 50, 5))
    /\ Len(cx_trace) = 1
    /\ cx_trace[1].res_sm = Err(InvalidSequenceMessageLabel(88))

\* The Result in a decoded value of either file.
ResultOf(x) == IF x.t = "message" THEN x.res ELSE x.res_mod

IsDecodeStep(i) ==
    /\ Chain[i].t = "multipart"
    /\ Chain[i + 1].t \in {"message", "message_mod"}

\* C18: for a three-frame input with topic hashblock or hashtx and a
\* four-byte sequence frame, a data frame of a length other than 32 gives
\* Invalid256BitHashLength of that length, and one of 32 bytes decodes to the
\* hash whose bytes are the data bytes in reverse order.
C18_HashLength ==
    \A i \in 1..(Len(Chain) - 1) :
        IsDecodeStep(i) =>
            LET mp == Chain[i].mp
                r == ResultOf(Chain[i + 1])
            IN  ( /\ Len(mp) = 3
                  /\ mp[1] \in {Bytes(TopicHashBlock), Bytes(TopicHashTx)}
                  /\ mp[3].len = 4 ) =>
                    /\ mp[2].len # 32 => r = Err(Invalid256BitHashLength(mp[2].len))
                    /\ mp[2].len = 32 =>
                         /\ r.ok
                         /\ LET c == PayloadOf(Chain[i + 1])
                            IN  /\ c.kind \in
                                     IF mp[1] = Bytes(TopicHashBlock)
                                     THEN {"HashBlock", "BlockHash"}
                                     ELSE {"HashTx", "Txid"}
                                /\ Len(c.hash) = 32
                                /\ \A k \in 1..32 : c.hash[k] = FrameByte(mp[2], 33 - k)

C18_Witness ==
    /\ cx_src = MultipartValue(<<Bytes(TopicHashBlock), Frame(20, <<>>), Seq4(7)>>)
    /\ Len(cx_trace) = 1
    /\ cx_trace[1] = MessageModValue(Err(Invalid256BitHashLength(20)))

\* C19: Message::from_multipart of a multipart of n frames, n other than 3,
\* gives InvalidMutlipartLength(n), whatever the frames hold (an unknown
\* topic, a data frame of a wrong length, a sequence frame that is not four
\* bytes long).
C19_FrameCountFirst ==
    \A i \in 1..(Len(Chain) - 1) :
        (IsDecodeStep(i) /\ Len(Chain[i].mp) # 3) =>
            ResultOf(Chain[i + 1]) = Err(InvalidMutlipartLength(Len(Chain[i].mp)))

C19_Witness ==
    /\ cx_src = MultipartValue(<<Bytes(TopicAbc), Bytes(<<>>), Frame(5, <<1>>),
                                 Bytes(<<103>>)>>)
    /\ Len(cx_trace) = 1
    /\ cx_trace[1] = MessageValue(Err(InvalidMutlipartLength(4)))

\* The topic bytes an error carries: Error::invalid_topic_data for
\* InvalidTopic, UnknownTopicError::invalid_topic_as_bytes for UnknownTopic.
CapturedTopic(e) ==
    IF e.kind = "InvalidTopic"
    THEN SubSeq(e.tbuf, 1, Min(e.tlen, Len(e.tbuf)))
    ELSE e.topic

\* C20: for a three-frame input whose topic frame is none of the five topic
\* strings and whose sequence frame is four bytes long, Message decode gives
\* the InvalidTopic or UnknownTopic error carrying the topic's bytes, cut at
\* TOPIC_MAX_LEN bytes when the topic is longer (InvalidTopic reporting the
\* real length alongside).
C20_UnknownTopicTruncated ==
    \A i \in 1..(Len(Chain) - 1) :
        IsDecodeStep(i) =>
            LET mp == Chain[i].mp
                r == ResultOf(Chain[i + 1])
            IN  ( /\ Len(mp) = 3
                  /\ FrameBytes(mp[1]) \notin KnownTopics
                  /\ mp[3].len = 4 ) =>
                    /\ ~r.ok
                    /\ r.err.kind \in {"InvalidTopic", "UnknownTopic"}
                    /\ CapturedTopic(r.err) =
                          SubSeq(FrameBytes(mp[1]), 1, Min(TOPIC_MAX_LEN, mp[1].len))
                    /\ r.err.kind = "InvalidTopic" => r.err.tlen = mp[1].len

\* C21: for a three-frame input with one of the five topics, a sequence
\* frame that is not four bytes long gives InvalidSequenceLength of its
\* length whatever the data frame holds, and a four-byte one is read as a
\* little-endian u32.
C21_SequenceLengthBeforeData ==
    \A i \in 1..(Len(Chain) - 1) :
        IsDecodeStep(i) =>
            LET mp == Chain[i].mp
                r == ResultOf(Chain[i + 1])
            IN  (Len(mp) = 3 /\ FrameBytes(mp[1]) \in KnownTopics) =>
                    /\ mp[3].len # 4 => r = Err(InvalidSequenceLength(mp[3].len))
                    /\ mp[3].len = 4 =>
                         /\ ~r.ok => r.err.kind # "InvalidSequenceLength"
                         /\ r.ok => MessageOf(Chain[i + 1]).sequence =
                                FrameByte(mp[3], 1) + 256 * FrameByte(mp[3], 2)
                                  + 65536 * FrameByte(mp[3], 3)
                                  + 16777216 * FrameByte(mp[3], 4)

C21_Witness ==
    /\ cx_src = MultipartValue(<<Bytes(TopicRawTx), Bytes(<<>>),
                    Bytes(<<110, 111, 116, 32, 52, 32, 98, 121, 116, 101, 115>>)>>)
    /\ Len(cx_trace) = 1
    /\ cx_trace[1] = MessageModValue(Err(InvalidSequenceLength(11)))

-----------------------------------------------------------------------------
(* Claims about the monitor message parser                                 *)

IsParseStep(i) == Chain[i].t = "monitor_frames"

\* The event code and data word of a six-byte event frame (bytes 0..2 and
\* 2..6, least significant byte first).
EventCodeOf(f) == FrameByte(f, 1) + 256 * FrameByte(f, 2)
EventDataOf(f) ==
    FrameByte(f, 3) + 256 * FrameByte(f, 4) + 65536 * FrameByte(f, 5)
      + 16777216 * FrameByte(f, 6)

\* C22: MonitorMessage::parse_from returns a value for every input: a
\* message of n frames, n other than 2, gives InvalidMutlipartLength(n); a
\* two-frame message whose first frame is not 6 bytes long gives
\* InvalidEventFrameLength of its length; otherwise the first frame is read
\* as a u16 event code and a u32 data word, and the second frame becomes the
\* source URL.
C22_MonitorParseRejects ==
    \A i \in 1..(Len(Chain) - 1) :
        IsParseStep(i) =>
            LET mp == Chain[i].mon
                r == Chain[i + 1].res_mon
            IN  /\ Len(mp) # 2 => r = Err(MonInvalidMutlipartLength(Len(mp)))
                /\ (Len(mp) = 2 /\ mp[1].len # 6) =>
                       r = Err(MonInvalidEventFrameLength(mp[1].len))
                /\ (Len(mp) = 2 /\ mp[1].len = 6) =>
                       /\ ~r.ok =>
                            r.err = MonInvalidEventData(EventCodeOf(mp[1]), EventDataOf(mp[1]))
                       /\ r.ok =>
                            /\ r.msg.source_url = FromUtf8Lossy(mp[2])
                            /\ "data" \in DOMAIN r.msg.event =>
                                   r.msg.event.data = EventDataOf(mp[1])
                            /\ r.msg.event.name = "Unknown" =>
                                   r.msg.event.event = EventCodeOf(mp[1])

C22_Witness ==
    /\ cx_src = MonitorFramesValue(<<Bytes(<<0, 16, 0, 0, 0, 0, 0>>), UrlA>>)
    /\ Len(cx_trace) = 1
    /\ cx_trace[1].res_mon = Err(MonInvalidEventFrameLength(7))

\* The variant define_socket_event_enum! gives an event code.
VariantOfCode(code) ==
    CASE code = 1 -> "Connected"
      [] code = 2 -> "ConnectDelayed"
      [] code = 4 -> "ConnectRetried"
      [] code = 8 -> "Listening"
      [] code = 16 -> "BindFailed"
      [] code = 32 -> "Accepted"
      [] code = 64 -> "AcceptFailed"
      [] code = 128 -> "Closed"
      [] code = 256 -> "CloseFailed"
      [] code = 512 -> "Disconnected"
      [] code = 1024 -> "MonitorStopped"
      [] code = 2048 -> "HandshakeFailedNoDetail"
      [] code = 4096 -> "HandshakeSucceeded"
      [] code = 8192 -> "HandshakeFailedProtocol"
      [] code = 16384 -> "HandshakeFailedAuth"
      [] OTHER -> "Unknown"

FieldlessVariants == {"ConnectDelayed", "MonitorStopped", "HandshakeSucceeded"}

\* C23: a six-byte event record decodes to the variant of its event code,
\* carrying the data word where the variant has a field, and to
\* Unknown{event, data} for a code outside the table; it fails, with
\* InvalidEventData, exactly when the code is HANDSHAKE_FAILED_PROTOCOL and
\* the data word is not a HandshakeFailure value.
C23_SocketEventDecoding ==
    \A i \in 1..(Len(Chain) - 1) :
        (IsParseStep(i) /\ Len(Chain[i].mon) = 2 /\ Chain[i].mon[1].len = 6) =>
            LET code == EventCodeOf(Chain[i].mon[1])
                data == EventDataOf(Chain[i].mon[1])
                r == Chain[i + 1].res_mon
            IN  /\ ~r.ok <=> (code = 8192 /\ data \notin HandshakeFailureValues)
                /\ r.ok =>
                     /\ r.msg.event.name = VariantOfCode(code)
                     /\ r.msg.event =
                          IF VariantOfCode(code) = "Unknown"
                          THEN [name |-> "Unknown", event |-> code, data |-> data]
                          ELSE IF VariantOfCode(code) \in FieldlessVariants
                          THEN [name |-> VariantOfCode(code)]
                          ELSE [name |-> VariantOfCode(code), data |-> data]

C23_Witness ==
    /\ cx_src = MonitorFramesValue(<<EventFrame(8192, 268435460), UrlB>>)
    /\ Len(cx_trace) = 1
    /\ cx_trace[1].res_mon = Err(MonInvalidEventData(8192, 268435460))

-----------------------------------------------------------------------------
(* Claims about the framing of recv_internal                               *)

\* C24: recv_internal classifies frame-length violations in frame order and
\* returns at the first offending frame: a topic frame longer than
\* TOPIC_MAX_LEN gives InvalidTopic(its real length, its first 9 bytes) and
\* nothing more is received, also when no frame follows; otherwise a data
\* frame longer than DATA_MAX_LEN gives InvalidDataLength(its real length);
\* otherwise a third frame that is not 4 bytes long gives
\* InvalidSequenceLength(its length).
C24_LengthViolationsInFrameOrder ==
    bl_pc = "callback" =>
        LET f == bl_call.frames
            n == Len(f)
        IN  IF IsZmqFailure(f[1]) THEN TRUE
            ELSE IF f[1].len > TOPIC_MAX_LEN
            THEN /\ bl_call.res =
                      Err(InvalidTopic(f[1].len, [i \in 1..TOPIC_MAX_LEN |-> FrameByte(f[1], i)]))
                 /\ bl_call.used = 1
            ELSE IF n >= 2 /\ IsZmqFailure(f[2]) THEN TRUE
            ELSE IF n >= 2 /\ f[2].len > DATA_MAX_LEN
            THEN /\ bl_call.res = Err(InvalidDataLength(f[2].len))
                 /\ bl_call.used = 2
            ELSE IF n >= 3 /\ IsZmqFailure(f[3]) THEN TRUE
            ELSE IF n >= 3 /\ f[3].len # SEQUENCE_LEN
            THEN /\ bl_call.res = Err(InvalidSequenceLength(f[3].len))
                 /\ bl_call.used = 3
            ELSE TRUE

C24_Witness ==
    /\ bl_pc = "callback"
    /\ bl_call.start = 0
    /\ bl_call.frames = MsgLongTopicOnly
    /\ bl_call.res = Err(InvalidTopic(10, TopicHashBlock))

\* C29: the blocking and the async path share one framing logic: for the
\* frames of a multipart message (at least one frame), recv_internal driven
\* by the socket and recv_internal driven by an iterator over the received
\* frames return the same Message or the same Error, whatever the scratch
\* buffer holds.
C29_SameFramingOnBothPaths ==
    bl_pc = "callback" =>
        /\ Len(bl_call.frames) >= 1
        /\ NoZmqFailure(bl_call.frames) =>
               \A buf \in {EmptyBuf, data_cache} :
                   RecvInternalIter(bl_call.frames, buf).res = bl_call.res

C29_Witness ==
    /\ bl_pc = "callback"
    /\ bl_call.start = 0
    /\ bl_call.frames = MsgFourFrames
    /\ bl_call.res = Err(InvalidMutlipartLength(4))
    /\ RecvInternalIter(MsgFourFrames, data_cache).res = Err(InvalidMutlipartLength(4))
    /\ Len(recvLog) = 2
    /\ recvLog[1].ok

-----------------------------------------------------------------------------
(* Claims about errors and termination of the checked stream               *)

IsPerMessageError(r) == ~r.ok /\ r.err.kind # "Disconnected"

\* C25 (state part): is_terminated() is true exactly when
\* Err(Disconnected(..)) has been yielded; every other Err item of the
\* inner stream read so far (framing or decoding error, receive error,
\* monitor parse error) has been yielded as one Err item.
C25_ErrorsState ==
    /\ (inner = "None") <=> (\E i \in 1..Len(out) : IsDisconnectedError(out[i]))
    /\ Len(SelectSeq(out, IsPerMessageError))
         = Cardinality(MalformedRead)
             + Len(SelectSeq(DataResults(SubSeq(dataItems, 1, dataRead), EmptyBuf),
                             IsPerMessageError))

\* C25 (step part): a poll that yields an Err item other than Disconnected
\* yields that one item and leaves the stream usable.
C25_ErrorsStep ==
    (out' # out /\ IsPerMessageError(Last(out'))) =>
        /\ inner' = "Some"
        /\ out' = Append(out, Last(out'))
        /\ lastPoll' = ReadySome(Last(out'))

\* C25: in the checked stream only a Disconnected event is terminal: any
\* other Err item of the inner stream is yielded as one Err item and the
\* stream stays usable, so later Messages are still delivered.
C25_OnlyDisconnectedIsTerminal == []C25_ErrorsState /\ [][C25_ErrorsStep]_vars

C25_Witness ==
    /\ inner = "Some"
    /\ monItems = <<MonThreeFrames>>
    /\ dataItems = <<RecvFailed, Received(MsgHashBlock)>>
    /\ out = <<Err(MonInvalidMutlipartLength(3)), Err(ZmqError),
               DataStreamItem(Received(MsgHashBlock), EmptyBuf).res>>
    /\ out[3].ok

\* A poll that terminates the stream leaves no data item unread.
C26_LosesStep == (inner = "Some" /\ inner' = "None") => dataRead' = Len(dataItems)

\* C26: every data Message readable on the data socket when the
\* terminating Disconnected event is consumed has been yielded before the
\* terminal Disconnected error: no received Message is lost by the
\* termination.
C26_NoMessageLostByTermination == [][C26_LosesStep]_vars

-----------------------------------------------------------------------------
(* Claims about the Sleep future and its timer thread                      *)

TimerStoredDone == timer_pc \in {"stored", "exited"}

\* C27 (state part): the state is Done exactly when the timer thread has
\* finished sleeping and stored it; a poll returned Ready only then; while
\* it is not Done, the state holds the waker of the latest poll.
C27_TimerState ==
    /\ (sleepState = "Done") <=> TimerStoredDone
    /\ (lastSleepPoll.polled /\ lastSleepPoll.ready) => TimerStoredDone
    /\ (lastSleepPoll.polled /\ ~TimerStoredDone) =>
          /\ ~lastSleepPoll.ready
          /\ sleepState = "PendingPolled"
          /\ sleepWaker = lastSleepPoll.waker

\* C27 (step part): a poll returns Ready exactly when the state is Done,
\* and otherwise stores the waker of its context; Done is never replaced.
C27_TimerStep ==
    /\ sleepState = "Done" => sleepState' = "Done"
    /\ lastSleepPoll' # lastSleepPoll =>
          /\ lastSleepPoll'.ready <=> sleepState = "Done"
          /\ ~lastSleepPoll'.ready =>
                /\ sleepState' = "PendingPolled"
                /\ sleepWaker' = lastSleepPoll'.waker

\* C27: the timer never fires early and its completion is permanent:
\* Sleep::poll returns Ready only after the timer thread stored Done, every
\* poll before that returns Pending and stores the current waker, and once
\* the state is Done nothing changes it and every later poll returns Ready.
C27_TimerNeverEarlyAndPermanent == []C27_TimerState /\ [][C27_TimerStep]_vars

C27_Witness ==
    /\ to_mode = "direct"
    /\ timer_pc = "exited"
    /\ sleepState = "Done"
    /\ timer_old = "PendingPolled"
    /\ timer_waker = 2
    /\ lastSleepPoll = SleepPolled(3, TRUE)

\* C30: no wakeup is lost: while the state is not Done it holds the waker
\* of the latest poll, so when the state is Done and the latest poll
\* returned Pending, the waker the timer thread took out of the state is
\* the one that poll registered, and the thread has woken it when it ends.
C30_NoLostWakeup ==
    /\ sleepState = "PendingPolled" =>
          /\ lastSleepPoll.polled
          /\ sleepWaker = lastSleepPoll.waker
    /\ (sleepState = "Done" /\ lastSleepPoll.polled /\ ~lastSleepPoll.ready) =>
          /\ timer_old = "PendingPolled"
          /\ timer_waker = lastSleepPoll.waker
          /\ timer_pc = "exited" => (wakes = 1 /\ woken)

C30_Witness ==
    /\ to_mode = "direct"
    /\ timer_pc = "exited"
    /\ sleepState = "Done"
    /\ lastSleepPoll = SleepPolled(5, FALSE)
    /\ timer_waker = 5
    /\ wakes = 1
    /\ woken

\* The handshake wait completed first: the call returned its result.
HandshakeWon == to_mode = "timeout" /\ to_pc = "returned" /\ to_result # TimedOut

\* The timer thread takes its steps in order, whatever the call does.
C28_TimerGoesOn ==
    \/ timer_pc' = timer_pc
    \/ <<timer_pc, timer_pc'>> \in
          {<<"sleeping", "slept">>, <<"slept", "stored">>, <<"stored", "exited">>}

\* After the call returned, the thread that has ended stored Done and woke
\* the waker the latest Sleep::poll registered.
C28_TimerEnded ==
    (HandshakeWon /\ timer_pc = "exited") =>
        /\ sleepState = "Done"
        /\ lastSleepPoll.polled =>
              /\ timer_old = "PendingPolled"
              /\ timer_waker = lastSleepPoll.waker
              /\ wakes = 1
        /\ ~lastSleepPoll.polled => wakes = 0

\* C28: the losing branch of the timeout race is not cancelled: when the
\* handshake wait completes first, the timer thread keeps running until
\* its sleep ends, then stores Done and wakes the waker registered by the
\* last Sleep::poll, although the call has returned.
C28_LosingTimerNotCancelled ==
    /\ [][C28_TimerGoesOn]_vars
    /\ []C28_TimerEnded
    /\ HandshakeWon ~> (timer_pc = "exited" /\ sleepState = "Done")

C28_Witness ==
    /\ HandshakeWon
    /\ to_result = Completed(TheStream)
    /\ timer_pc = "exited"
    /\ timer_old = "PendingPolled"
    /\ timer_waker = TaskWaker
    /\ wakes = 1
    /\ monRead = 1

-----------------------------------------------------------------------------
(* Further claims about the handshake wait                                 *)

\* C31: the handshake counter never underflows: `connecting` is at least 1
\* at the start of every iteration of the loop, so the decrement on
\* HandshakeSucceeded is never applied to 0, also when the monitor channel
\* holds more HandshakeSucceeded events than there are endpoints.
C31_CounterNeverUnderflows ==
    /\ connecting >= 0
    /\ hs_pc \in {"loop", "parked"} => connecting >= 1
    /\ hs_pc = "resolved" => connecting = 0

C31_Witness ==
    /\ hs_N = 1
    /\ monItems = <<MonHandshakeSucceeded, MonHandshakeSucceeded, MonHandshakeSucceeded>>
    /\ monRead = 1
    /\ hs_pc = "resolved"
    /\ connecting = 0

\* The URL the monitor reports for the i-th endpoint.
EndpointUrl(i) == IF i = 1 THEN UrlA ELSE IF i = 2 THEN UrlB ELSE Bytes(<<>>)
ItemUrl(item) == item.frames[2]

\* Whether the endpoint with URL u is handshaken after the events `items`:
\* its latest HandshakeSucceeded or Disconnected is a HandshakeSucceeded.
RECURSIVE HandshakenAfter(_, _)
HandshakenAfter(items, u) ==
    IF items = <<>> THEN FALSE
    ELSE IF ItemUrl(Last(items)) = u /\ EventName(Last(items)) = "HandshakeSucceeded"
    THEN TRUE
    ELSE IF ItemUrl(Last(items)) = u /\ EventName(Last(items)) = "Disconnected"
    THEN FALSE
    ELSE HandshakenAfter(Front(items), u)

NotHandshaken(items) ==
    Cardinality({i \in 1..hs_N : ~HandshakenAfter(items, EndpointUrl(i))})

\* Every event comes from one of the N endpoints.
FromEndpoints(items) ==
    \A k \in 1..Len(items) : \E i \in 1..hs_N : ItemUrl(items[k]) = EndpointUrl(i)

\* An endpoint reports Disconnected only while it is handshaken.
DisconnectsWellOrdered(items) ==
    \A k \in 1..Len(items) :
        EventName(items[k]) = "Disconnected" =>
            HandshakenAfter(SubSeq(items, 1, k - 1), ItemUrl(items[k]))

\* An endpoint reports HandshakeSucceeded only while it is not handshaken.
HandshakesWellOrdered(items) ==
    \A k \in 1..Len(items) :
        EventName(items[k]) = "HandshakeSucceeded" =>
            ~HandshakenAfter(SubSeq(items, 1, k - 1), ItemUrl(items[k]))

\* The counter is the number of endpoints not handshaken, and the wait is
\* resolved only with all of them handshaken.
CounterTracksEndpoints ==
    /\ connecting = NotHandshaken(Consumed)
    /\ hs_pc = "resolved" => NotHandshaken(Consumed) = 0

\* C32 as stated: if every endpoint reports Disconnected only after a
\* HandshakeSucceeded of its own that no Disconnected followed, the counter
\* equals the number of the N endpoints that are not handshaken, and the
\* wait resolves only when all N are handshaken.
C32_AsStated ==
    (hs_N > 0 /\ HsPastSetup /\ FromEndpoints(Consumed)
       /\ DisconnectsWellOrdered(Consumed))
    => CounterTracksEndpoints

\* C32: if the HandshakeSucceeded and Disconnected events of every endpoint
\* alternate, starting with HandshakeSucceeded, the counter equals the
\* number of the N endpoints that are not handshaken, and the wait resolves
\* only when all N are handshaken.
C32_ResolutionMeansAllUp ==
    (hs_N > 0 /\ HsPastSetup /\ FromEndpoints(Consumed)
       /\ DisconnectsWellOrdered(Consumed) /\ HandshakesWellOrdered(Consumed))
    => CounterTracksEndpoints

C32_Witness ==
    /\ hs_N = 2
    /\ monItems = <<MonHandshakeSucceeded, MonDisconnectedA, MonHandshakeSucceededB>>
    /\ monRead = 3
    /\ hs_pc \in {"loop", "parked"}
    /\ connecting = 1
    /\ NotHandshaken(Consumed) = 1

\* Every endpoint has completed a handshake and is connected.
AllEndpointsUp == \A i \in 1..hs_N : HandshakenAfter(monItems, EndpointUrl(i))

\* C33: if from some point on every one of the N endpoints has completed a
\* handshake and stays connected, the wait, polled fairly, eventually
\* resolves, whatever monitor events came before.
C33_ResolvesOnceAllUp ==
    <>[](AllEndpointsUp /\ hs_pc # "setup_error") => <>(hs_pc = "resolved")

\* C34: a monitor message that was not received, does not have exactly 2
\* frames, has a first frame that is not 6 bytes long or carries invalid
\* event data aborts the wait: the future completes with that error when it
\* reads the message, whatever the counter is, and hands out no stream; up
\* to then it read only well-formed messages.
C34_MalformedMonitorAborts ==
    (hs_N > 0 /\ HsPastSetup) =>
        /\ (hs_pc = "error") <=> (monRead >= 1 /\ ~IsWellFormed(monItems[monRead]))
        /\ AllWellFormed(SubSeq(monItems, 1, monRead - 1))
        /\ hs_pc = "error" =>
              /\ hs_res = MonitorStreamItem(monItems[monRead])
              /\ ~hs_res.ok
              /\ to_pc = "returned"
              /\ to_result = hs_res

C34_Witness ==
    /\ hs_N = 2
    /\ monItems = <<MonHandshakeSucceeded, MonBadFailure, MonHandshakeSucceeded>>
    /\ monRead = 2
    /\ connecting = 1
    /\ hs_pc = "error"
    /\ hs_res = Err(MonInvalidEventData(8192, 7))

\* C35 (state part): until the wait has resolved, no data item has been
\* read, yielded or copied to the scratch buffer; the Messages the returned
\* stream yields are those of the data items in their order of arrival,
\* from the first one on.
C35_WaitState ==
    /\ hs_pc # "resolved" =>
          /\ dataRead = 0
          /\ out = <<>>
          /\ data_cache = EmptyBuf
          /\ lastPoll = NoPoll
    /\ SelectSeq(out, IsOk)
         = SelectSeq(DataResults(SubSeq(dataItems, 1, dataRead), EmptyBuf), IsOk)

\* C35 (step part): a step taken while the wait has not resolved leaves the
\* data items that arrived where they are.
C35_WaitStep ==
    hs_pc # "resolved" =>
        /\ dataRead' = 0
        /\ SubSeq(dataItems', 1, Len(dataItems)) = dataItems

\* C35: the handshake wait reads only the monitor channel: while it is
\* pending it never receives from the data socket, so the data messages
\* queued before it resolves are the first items the returned stream can
\* deliver.
C35_WaitReadsOnlyMonitor == []C35_WaitState /\ [][C35_WaitStep]_vars

C35_Witness ==
    /\ hs_N = 1
    /\ hs_pc = "resolved"
    /\ monItems = <<MonDisconnectedA, MonHandshakeSucceeded, MonHandshakeSucceeded>>
    /\ monRead = 3
    /\ dataItems = <<Received(MsgHashBlock), Received(MsgSequenceC)>>
    /\ dataRead = 2
    /\ Len(out) = 2
    /\ out[1].ok /\ out[1].msg.kind = "HashBlock"
    /\ out[2].ok /\ out[2].msg.kind = "Sequence"

-----------------------------------------------------------------------------
(* Claims about the combined message+monitor stream                        *)

\* The item the combined stream yields for a monitor message.
EventItem(item) ==
    IF IsWellFormed(item)
    THEN Ok([event |-> MonitorMessage_parse_from(item.frames).msg])
    ELSE MonitorStreamItem(item)

\* A poll of the combined stream with a monitor message ready yields the
\* event, or the parse error, and leaves the data stream alone; a data item
\* is read only by a poll that finds the monitor channel empty.
C36_PriorityStep ==
    su_api = "monitor" =>
        /\ dataRead' > dataRead =>
              /\ monRead = Len(monItems)
              /\ monRead' = monRead
        /\ (lastPoll' # lastPoll \/ out' # out) =>
              IF monRead < Len(monItems)
              THEN /\ monRead' = monRead + 1
                   /\ dataRead' = dataRead
                   /\ out' = Append(out, EventItem(monItems[monRead + 1]))
              ELSE monRead' = monRead

\* C36: in the stream of subscribe_async_monitor monitor events have strict
\* priority: a ready data message is never yielded while a monitor event
\* is ready, and of an event and a message that are both ready the event
\* is yielded first.
C36_MonitorEventsFirst == [][C36_PriorityStep]_vars

C36_Witness ==
    /\ su_api = "monitor"
    /\ su_pc = "done"
    /\ monItems = <<MonConnected, MonThreeFrames>>
    /\ monRead = 2
    /\ Len(dataItems) = 2
    /\ dataRead = 0
    /\ out = <<Ok([event |-> MonitorMessage_parse_from(MonConnected.frames).msg]),
               Err(MonInvalidMutlipartLength(3))>>

-----------------------------------------------------------------------------
(* Claims about recv_internal and its scratch buffer                       *)

\* The implementations of ReceiveFrom that can be given `frames`: the
\* socket, and the iterator when every frame has arrived.
ReceiveFromOf(frames) ==
    IF NoZmqFailure(frames) THEN {"Socket", "Iter"} ELSE {"Socket"}

\* C37: recv_internal never panics or indexes out of range on a multipart
\* message of at least one frame, through the socket or through the
\* iterator, whatever the scratch buffer holds: it never receives more
\* frames than the message has (on the iterator path every receive_into
\* after the first follows a has_next that returned true), and a Message is
\* built only from a topic of at most TOPIC_MAX_LEN bytes and a data frame
\* of at most DATA_MAX_LEN bytes.
C37_RecvInternalNeverPanics ==
    bl_pc = "callback" =>
        /\ Len(bl_call.frames) >= 1
        /\ \A socket \in ReceiveFromOf(bl_call.frames) : \A buf \in {EmptyBuf, data_cache} :
               LET r == RecvInternalWith(socket, bl_call.frames, buf)
               IN  /\ ~IsPanic(r.res)
                   /\ r.used <= Len(bl_call.frames)
                   /\ r.res.ok =>
                          /\ SliceInRange(bl_call.frames[1].len, TOPIC_MAX_LEN)
                          /\ SliceInRange(bl_call.frames[2].len, DATA_MAX_LEN)
        /\ ~IsPanic(bl_call.res)

C37_Witness ==
    /\ bl_pc = "callback"
    /\ bl_call.frames = MsgOneFrame
    /\ bl_call.res = Err(InvalidMutlipartLength(1))
    /\ RecvInternalIter(MsgOneFrame, data_cache) =
           Recv(Err(InvalidMutlipartLength(1)), 1, data_cache)
    /\ Len(recvLog) = 2
    /\ recvLog[1].ok

\* Contents an earlier call can have left in the scratch buffer: nothing,
\* or the data frame of a catalog message.
PriorBufs ==
    {EmptyBuf} \cup {BufWrite(EmptyBuf, m[2]) :
                        m \in {c \in DataCatalog : Len(c) >= 2 /\ NoZmqFailure(c)}}

\* C38: reusing the scratch buffer never leaks earlier payloads: the result
\* of the call just made, which started from the buffer the earlier calls
\* left, equals the result of recv_internal on the same frames from any
\* other prior buffer contents, through the socket and through the iterator.
C38_ResultIndependentOfPriorBuffer ==
    bl_pc = "callback" =>
        \A socket \in ReceiveFromOf(bl_call.frames) : \A buf \in PriorBufs \cup {data_cache} :
            RecvInternalWith(socket, bl_call.frames, buf).res = bl_call.res

\* MsgHashBlock (32 bytes of data) received after MsgSequenceC (33 bytes):
\* byte 33 of the buffer still holds the earlier payload.
C38_Witness ==
    /\ bl_pc = "callback"
    /\ bl_call.frames = MsgHashBlock
    /\ bl_call.res.ok
    /\ Len(recvLog) = 2
    /\ recvLog[1].ok
    /\ data_cache = BufWrite(BufWrite(EmptyBuf, MsgSequenceC[2]), MsgHashBlock[2])
    /\ BufByte(data_cache, 33) = LabelC
    /\ bl_call.res = RecvInternal(MsgHashBlock, EmptyBuf).res

-----------------------------------------------------------------------------
(* Claims about subscribe_multi_blocking                                   *)

C39_State ==
    /\ mb_pc # "unreachable"
    /\ mb_pc = "loop" => (mb_tx /\ rxAlive)
    /\ rxAlive => \A r \in 1..Len(mb_readers) : mb_readers[r].running
    /\ mb_N = 0 => (mb_pc \in {"spawn", "loop"} /\ mb_ret = NoValue)

C39_Step ==
    /\ (mb_pc = "loop" /\ mb_pc' # "loop") =>
          /\ mb_pc' = "returned"
          /\ Len(cbLog') = Len(cbLog) + 1
          /\ cbLog'[Len(cbLog')].flow.brk
          /\ mb_ret' = cbLog'[Len(cbLog')].flow.val
          /\ ~rxAlive'
    /\ \A r \in 1..Len(mb_readers) :
          /\ (~rxAlive /\ mb_readers'[r].pushes = mb_readers[r].pushes + 1)
                 => ~mb_readers'[r].running
          /\ (mb_readers[r].running /\ ~mb_readers'[r].running)
                 => (~rxAlive /\ mb_readers'[r].pushes = mb_readers[r].pushes + 1)

\* C39: in subscribe_multi_blocking the unreachable!() after the loop is
\* never executed: while the loop runs the function holds a Sender and the
\* Receiver, so the loop is left only by a Break of the callback, whose
\* value the function returns (with zero endpoints it never returns); a
\* reader thread never ends while the Receiver is alive, and once the
\* function has returned each reader thread ends at its next push.
C39_LoopEndsOnlyByBreak == []C39_State /\ [][C39_Step]_vars

C39_Witness ==
    /\ mb_pc = "returned"
    /\ mb_N = 2
    /\ mb_ret = "b1"
    /\ Len(rxLog) = 1
    /\ Len(mb_readers) = 2
    /\ \A r \in 1..2 : ~mb_readers[r].running /\ mb_readers[r].pushes >= 1

=============================================================================
